---- MODULE Spec2Model ----
(***************************************************************************)
(* Model of the RobotPy VS Code extension (src/src/extension.ts): the      *)
(* process supervisor (execFancy / killCurrentProcess), the pseudo         *)
(* terminal, the environment prober, the venv reconciler and the command   *)
(* dispatcher.                                                             *)
(*                                                                         *)
(* The extension runs on the single-threaded JavaScript event loop.  An    *)
(* external event (a subprocess event, a prompt answer, the completion of  *)
(* an I/O request, terminal input, a command invocation) is handled only   *)
(* when no continuation is pending; a task that has been resumed runs      *)
(* until it suspends on the next real wait.  A task whose record is in a   *)
(* "ready" position therefore blocks every external event (Quiescent).     *)
(***************************************************************************)
EXTENDS Integers, Sequences, FiniteSets, TLC

VARIABLES
    task,            \* per async call chain: position and locals
    procs,           \* spawned subprocesses that have not emitted close/error
    errored,         \* child objects whose spawn failed: 'error' has been
                     \* emitted, 'close' is still to come
    charged,         \* history: the spawns that failed, and the events handled
                     \* while the 'close' of a failed child was still to come
    spawned,         \* number of subprocesses spawned since the initial state
    budget,          \* the number of spawns the run is explored for, what is
                     \* charged counting as spawns
    currentProcess,  \* the RunningProcess slot: a pid, or NoProc
    initialized,     \* extensionInitialized has been resolved
    termOpen,        \* robotpyTerminalAndEmitter exists and is still open
    inputBuffer,     \* the pty's line buffer
    typed,           \* history: the chunks handleInput was given since the
                     \* line buffer was last reset
    venvExists,      \* the .venv directory exists on disk
    interpreterSet,  \* python.defaultInterpreterPath has been written
    hasWorkspace,    \* vscode.workspace.workspaceFolders is defined
    windows,         \* os.platform() === 'win32'
    lastEvent,       \* history: the subprocess event or cancel-prompt answer
                     \* handled by the last step
    mark             \* history: how each command sequence's spawns overlap

vars == <<task, procs, errored, charged, spawned, budget, currentProcess,
          initialized, termOpen, inputBuffer, typed,
          venvExists, interpreterSet, hasWorkspace, windows, lastEvent, mark>>

(***************************************************************************)
(* Bounds                                                                  *)
(***************************************************************************)
\* Most subprocesses spawned in one run: activation followed by one command
\* at a time (Spec), and two concurrent commands (SpecTwo).
MaxSpawns == 6
MaxSpawnsTwo == 4

\* Most failed spawns, and events handled while the 'close' of a failed child
\* is still to come, that a run which does not count its spawns is explored
\* for (SpecLive).
MaxCharged == 2

\* Terminal sessions (SpecTerm): most subprocesses spawned, most chunks typed
\* into one line, most lines written to one process.
MaxSpawnsTerm == 2
MaxTyped == 2
MaxLines == 1

\* Version probes (SpecProbe): the versions an interpreter may report are
\* 0.0 .. MaxMajor.MaxMinor.
MaxMajor == 4
MaxMinor == 13

(***************************************************************************)
(* Program constants                                                       *)
(***************************************************************************)
PYTHON_MIN_VERSION == <<3, 12>>

\* candidates of findPythonCommand: 5 names on PATH, or 5 under bin plus 5
\* under Scripts of the venv
NumSystemCandidates == 5
NumVenvCandidates == 10

\* JavaScript null for an exit code
Null == -1
\* JavaScript null for a signal name
NoSignal == "null"

NoProc == 0

Open == "open"
Commands == {"cmdA", "cmdB"}
Tasks == {Open} \cup Commands

\* the argument lists registered by activate()
CommandLists == { <<"init">>, <<"project update-robotpy", "sync">>, <<"sim">>,
                  <<"deploy">>, <<"deploy --skip-tests">> }
\* the lists the model invokes: one single-subcommand list and the pair
InvokedLists == { <<"sim">>, <<"project update-robotpy", "sync">> }
OpenSyncList == <<"project update-robotpy", "sync">>

ExitCodes == {0, 1, 2}
Signals == {"SIGTERM", "SIGINT"}

(***************************************************************************)
(* Text: a string is a sequence of one-character strings.                  *)
(***************************************************************************)
Digits == {"0", "1", "2", "3", "4", "5", "6", "7", "8", "9"}
\* ECMAScript WhiteSpace and LineTerminator, which the pattern class \s and
\* String.prototype.trim() both use: tab, line feed, vertical tab, form feed,
\* carriage return, space, U+00A0, U+1680, U+FEFF written as themselves, and
\* U+2000..U+200A, U+2028, U+2029, U+202F, U+205F, U+3000 by their names
JsWhiteSpace ==
    { "\t", "\n", "", "\f", "\r", " ", " ", " ", "﻿",
      "U+2000", "U+2001", "U+2002", "U+2003", "U+2004", "U+2005", "U+2006",
      "U+2007", "U+2008", "U+2009", "U+200A", "U+2028", "U+2029", "U+202F",
      "U+205F", "U+3000" }

\* \s
Spaces == JsWhiteSpace

DigitVal(c) ==
    CASE c = "0" -> 0 [] c = "1" -> 1 [] c = "2" -> 2 [] c = "3" -> 3
      [] c = "4" -> 4 [] c = "5" -> 5 [] c = "6" -> 6 [] c = "7" -> 7
      [] c = "8" -> 8 [] c = "9" -> 9

\* case folding of the letters the /i flag matters for
Lower(c) ==
    CASE c = "P" -> "p" [] c = "Y" -> "y" [] c = "T" -> "t" [] c = "H" -> "h"
      [] c = "O" -> "o" [] c = "N" -> "n" [] OTHER -> c

\* first index >= p of s whose character is not in set (Len(s)+1 if none)
RECURSIVE SkipWhile(_, _, _)
SkipWhile(s, p, set) ==
    IF p <= Len(s) /\ s[p] \in set THEN SkipWhile(s, p + 1, set) ELSE p

\* parseInt(digits, 10) of s[from..to-1]
RECURSIVE ParseInt(_, _, _, _)
ParseInt(s, from, to, acc) ==
    IF from >= to THEN acc
    ELSE ParseInt(s, from + 1, to, acc * 10 + DigitVal(s[from]))

NoMatch == <<>>

\* /Python\s+(\d+)\.(\d+)/i attempted at position p of s: the pair
\* <<major, minor>>, or NoMatch.  \s+ ends at d1, the first (\d+) at e1 and
\* the second at e2, each found once.
MatchVersionAt(s, p) ==
    LET word == <<"p", "y", "t", "h", "o", "n">>
        q  == p + 6
        Groups[d1 \in Nat, e1 \in Nat, e2 \in Nat] ==
            IF /\ d1 > q
               /\ e1 > d1
               /\ e1 <= Len(s) /\ s[e1] = "."
               /\ e2 > e1 + 1
            THEN <<ParseInt(s, d1, e1, 0), ParseInt(s, e1 + 1, e2, 0)>>
            ELSE NoMatch
        Minor[d1 \in Nat, e1 \in Nat] == Groups[d1, e1, SkipWhile(s, e1 + 1, Digits)]
        Major[d1 \in Nat] == Minor[d1, SkipWhile(s, d1, Digits)]
    IN  IF /\ p + 5 <= Len(s)
           /\ \A j \in 1..6 : Lower(s[p + j - 1]) = word[j]
        THEN Major[SkipWhile(s, q, Spaces)]
        ELSE NoMatch

\* out.match(/Python\s+(\d+)\.(\d+)/i): the leftmost match
RECURSIVE MatchVersionFrom(_, _)
MatchVersionFrom(s, p) ==
    IF p > Len(s) THEN NoMatch
    ELSE IF MatchVersionAt(s, p) # NoMatch THEN MatchVersionAt(s, p)
    ELSE MatchVersionFrom(s, p + 1)

MatchVersion(s) == MatchVersionFrom(s, 1)

\* `stdout || stderr`: the empty string is falsy
FirstNonEmpty(stdout, stderr) == IF stdout # <<>> THEN stdout ELSE stderr

\* variant: only the minor component is compared
IsNewEnoughMinorOnly(version) ==
    version[2] >= PYTHON_MIN_VERSION[2]

\* variant: versions are compared lexicographically
IsNewEnoughLexicographic(version) ==
    \/ version[1] > PYTHON_MIN_VERSION[1]
    \/ version[1] = PYTHON_MIN_VERSION[1] /\ version[2] >= PYTHON_MIN_VERSION[2]

\* version[0] >= PYTHON_MIN_VERSION[0] && version[1] >= PYTHON_MIN_VERSION[1]
IsNewEnough(version) ==
    version[1] >= PYTHON_MIN_VERSION[1] /\ version[2] >= PYTHON_MIN_VERSION[2]

\* what a `--version` probe may print on a stream
Py312 == <<"P", "y", "t", "h", "o", "n", " ", "3", ".", "1", "2", ".", "1">>
Py311 == <<"P", "y", "t", "h", "o", "n", " ", "3", ".", "1", "1">>
\* <<stdout, stderr>> of a successful `--version` run
ProbeOutputs == { <<Py312, <<>>>>, <<<<>>, Py311>>, <<<<>>, <<>>>> }

(***************************************************************************)
(* Task records                                                            *)
(***************************************************************************)
NoErr == [kind |-> "none", code |-> Null, signal |-> NoSignal]

\* new Error(`Could not run command because another process (...) was running`)
NopeErr == [kind |-> "another process was running", code |-> Null, signal |-> NoSignal]

\* reading .cmdString of undefined
TypeErr == [kind |-> "TypeError", code |-> Null, signal |-> NoSignal]

\* the err object of the child process's 'error' event
SpawnErr == [kind |-> "spawn error", code |-> Null, signal |-> NoSignal]

\* the message built by the 'close' handler
CloseMsg(code, signal) ==
    IF code = Null
    THEN [kind |-> "Process was killed with signal", code |-> Null, signal |-> signal]
    ELSE [kind |-> "Process exited with code", code |-> code, signal |-> NoSignal]

\* variant: the handler tests `code > 0`, so a null code counts as success
CloseRejectsPositive(code) == code > 0

\* `code != 0` in the 'close' handler (null != 0 is true)
CloseRejects(code) == code # 0

\* the `result` literal at the top of checkEnvironment
InitialChecks ==
    [ hasRobotPyProjectFile     |-> FALSE,
      hasSystemPython           |-> FALSE,
      isSystemPythonNewEnough   |-> FALSE,
      hasSystemPythonVenvModule |-> FALSE,
      hasVenvFolder             |-> FALSE,
      isVenvPythonNewEnough     |-> FALSE,
      isVenvReady               |-> FALSE,
      hasVenvPython             |-> FALSE,
      winExecutionPolicyOk      |-> ~windows ]

IdleTask ==
    [ pc       |-> "idle",
      ex       |-> "none",     \* position inside execFancy
      pid      |-> NoProc,     \* the process whose close/error is awaited
      err      |-> NoErr,      \* the rejection of the last execFancy
      stdout   |-> <<>>,
      stderr   |-> <<>>,
      i        |-> 0,          \* candidate index in findPythonCommand
      k        |-> 0,          \* index of the subcommand being run
      cmds     |-> <<>>,
      checks   |-> InitialChecks,
      didError |-> FALSE,
      saveOk   |-> FALSE,
      venvOk   |-> FALSE,
      outcome  |-> "none",     \* how the call chain settled
      subLog   |-> <<>>,       \* history: fate of each subcommand so far
      log      |-> <<>> ]      \* history: what the reconciler showed, asked,
                               \* deleted and ran in this call

\* positions whose execFancy call is made with silent: true
SilentPcs == {"sysProbe", "sysVenvMod", "venvProbe", "venvRobotpy"}
VersionProbePcs == {"sysProbe", "venvProbe"}
IsSilent(pc) == pc \in SilentPcs

\* positions at which a resumed call chain still has synchronous work to do
ReadyPcs == {"start", "gate", "save", "saved", "checked", "ensure", "ensured"}

Ready(t) == task[t].pc \in ReadyPcs \/ task[t].ex \in {"call", "ok", "fail"}

\* no call chain has synchronous work left
Drained == \A t \in Tasks : ~Ready(t)

\* the event loop is idle: the next event may be taken.  The 'close' of a
\* child that failed to spawn comes in a later turn than its 'error', so any
\* other event may be handled in between.
Quiescent == Drained

NoEvent == [type |-> "none", pid |-> NoProc, owner |-> Open,
            code |-> Null, signal |-> NoSignal,
            data |-> <<>>,    \* the chunk given to handleInput
            echo |-> <<>>,    \* what handleInput wrote to the terminal
            version |-> <<>>, \* the version findPythonCommand returned
            dropped |-> FALSE] \* whether Ctrl-C or a discarded activation
                               \* command threw away unsubmitted text

\* history: the kinds of event recorded in lastEvent.  "accepted"/"declined"
\* answer execFancy's cancel prompt, "cancel accepted"/"cancel declined" the
\* dispatcher's.
EventTypes == {"none", "close", "error", "accepted", "declined",
               "cancel accepted", "cancel declined", "ctrl-c", "terminal closed",
               "input", "located system", "located venv", "data",
               "close after error"}

\* a settled call chain keeps only how it settled
Settled(outcome) == [IdleTask EXCEPT !.pc = "done", !.outcome = outcome]

\* variant: onProjectOpen().then(resolveExtensionInitialized), which resolves
\* only when the open sequence did not reject
SetTaskThenOnly(t, r) ==
    /\ task' = [u \in Tasks |->
                  IF u = t THEN r
                  ELSE IF /\ t = Open /\ r.pc = "done" /\ r.outcome = "resolved"
                          /\ task[u].pc = "awaitInit"
                       THEN [task[u] EXCEPT !.pc = "gate"]
                       ELSE task[u]]
    /\ initialized' = (initialized \/ (t = Open /\ r.pc = "done"
                                                /\ r.outcome = "resolved"))
    /\ budget' = budget

\* task t moves to record r.  onProjectOpen().finally(resolveExtensionInitialized):
\* settling the open sequence resolves extensionInitialized, which resumes
\* every robotpyCommands call waiting on it.
SetTask(t, r) ==
    /\ task' = [u \in Tasks |->
                  IF u = t THEN r
                  ELSE IF t = Open /\ r.pc = "done" /\ task[u].pc = "awaitInit"
                       THEN [task[u] EXCEPT !.pc = "gate"]
                       ELSE task[u]]
    /\ initialized' = (initialized \/ (t = Open /\ r.pc = "done"))
    /\ budget' = budget

\* history only: a command sequence that spawns is "stepped"; it becomes
\* "overlapped" when the other command sequence spawns after that; a sequence
\* that is invoked anew or has settled is "none".
MarkAfter(t, r, spawns) ==
    mark' = [u \in Commands |->
               IF u = t
               THEN IF r.pc \in {"done", "awaitInit", "gate"} THEN "none"
                    ELSE IF spawns /\ mark[u] = "none" THEN "stepped"
                    ELSE mark[u]
               ELSE IF spawns /\ t \in Commands /\ mark[u] = "stepped"
                    THEN "overlapped"
                    ELSE mark[u]]

\* history: a step taken while the event loop is idle is the handling of an
\* event; it is counted when the 'close' of a failed child is still to come
\* (in a run that does not count its spawns, up to MaxCharged)
Overtaking ==
    IF Drained /\ DOMAIN errored # {}
    THEN IF budget > 0 \/ charged < MaxCharged THEN charged + 1 ELSE charged
    ELSE charged

Step(t, r) ==
    /\ SetTask(t, r)
    /\ MarkAfter(t, r, FALSE)
    /\ errored' = errored
    /\ charged' = Overtaking

Init ==
    /\ hasWorkspace \in BOOLEAN
    /\ windows \in BOOLEAN
    /\ venvExists \in BOOLEAN
    /\ task = [t \in Tasks |-> IF t = Open THEN [IdleTask EXCEPT !.pc = "start"]
                                ELSE IdleTask]
    /\ procs = << >>
    /\ errored = << >>
    /\ charged = 0
    /\ spawned = 0
    /\ budget = MaxSpawns
    /\ currentProcess = NoProc
    /\ initialized = FALSE
    /\ termOpen = FALSE
    /\ inputBuffer = <<>>
    /\ typed = <<>>
    /\ interpreterSet = FALSE
    /\ lastEvent = NoEvent
    /\ mark = [u \in Commands |-> "none"]

(***************************************************************************)
(* Process supervisor                                                      *)
(***************************************************************************)
\* a run with budget 0 does not count its spawns
Counted == budget > 0

\* processes are numbered in spawn order; in a run that does not count, a new
\* process takes the least number no live process has
FreePid ==
    IF Counted THEN spawned + 1
    ELSE CHOOSE p \in 1..(Cardinality(DOMAIN procs \cup DOMAIN errored) + 1) :
           /\ p \notin DOMAIN procs \cup DOMAIN errored
           /\ \A q \in 1..(p - 1) : q \in DOMAIN procs \cup DOMAIN errored

\* str.replace(/(?<!\r)\n/g, "\r\n"), prev being the code unit before s
RECURSIVE ReplaceBareLF(_, _)
ReplaceBareLF(s, prev) ==
    IF s = <<>> THEN <<>>
    ELSE (IF Head(s) = "\n" /\ prev # "\r" THEN <<"\r", "\n">> ELSE <<Head(s)>>)
           \o ReplaceBareLF(Tail(s), Head(s))

\* maybeWriteToTerminal(str), on what the terminal has received
MaybeWriteToTerminal(silent, terminal, str) ==
    IF silent THEN terminal ELSE terminal \o ReplaceBareLF(str, "")

\* `Running: ${cmdString}` with appendLine's newline; a command string is one
\* unit of text, named by the position that runs it
RunningLine(pc) == <<"Running: ", pc, "\n">>

\* `$ ${cmdString}\r\n`
InvocationLine(pc) == <<"$ ", pc, "\r", "\n">>

\* The run of one execFancy call: the child process, the stdout and stderr
\* accumulators, and (history) what the call has appended to the output
\* channel and fired at the terminal from its invocation line on, and the
\* chunks its 'data' handlers were given, in arrival order.
NewProc(t, r) ==
    [ owner    |-> t,
      kind     |-> r.pc,
      idx      |-> IF r.pc = "subcmd" THEN r.k ELSE r.i,
      silent   |-> IsSilent(r.pc),
      killed   |-> FALSE,
      made     |-> FALSE,    \* a `-m venv` child has written the venv directory
      stdin    |-> <<>>,
      stdout   |-> <<>>,
      stderr   |-> <<>>,
      channel  |-> RunningLine(r.pc),
      terminal |-> MaybeWriteToTerminal(IsSilent(r.pc), <<>>, InvocationLine(r.pc)),
      received |-> <<>> ]

\* proc.kill() on the process in the slot, if any
Killed(ps, p) == IF p \in DOMAIN ps THEN [ps EXCEPT ![p].killed = TRUE] ELSE ps

\* variant: the slot is emptied, the process left running
KillCurrentProcessForgets(ps) == ps

\* killCurrentProcess(): currentProcess?.proc.kill(); currentProcess = undefined
KillCurrentProcess(ps) == Killed(ps, currentProcess)

\* history: record r with entry e added to the reconciler's log
Logged(r, e) == [r EXCEPT !.log = Append(@, e)]

\* positions of the execFancy calls made by createVenv and installLatestRobotPy
ReconcilerRunPcs == {"createVenv", "install"}

\* history: an execFancy event of a run the reconciler asked for
LogIfReconciling(r, e) == IF r.pc \in ReconcilerRunPcs THEN Logged(r, e) ELSE r

\* const proc = spawn(...); currentProcess = { proc, ... }, from the process
\* table ps
Spawn(t, r, ps) ==
    /\ Counted => spawned + charged < budget
    /\ spawned' = IF Counted THEN spawned + 1 ELSE spawned
    /\ procs' = (FreePid :> NewProc(t, r)) @@ ps
    /\ currentProcess' = FreePid
    /\ SetTask(t, [LogIfReconciling(r, r.pc) EXCEPT !.ex = "run", !.pid = FreePid])
    /\ MarkAfter(t, r, TRUE)
    /\ errored' = errored /\ charged' = Overtaking

\* history: a subcommand request that was rejected before any spawn
LogIfSub(r, fate) == IF r.pc = "subcmd" THEN Append(r.subLog, fate) ELSE r.subLog

\* getRobotPyTerminal(): reuse the session if its terminal is still open,
\* else create one with an empty line buffer
GetRobotPyTerminal ==
    /\ termOpen' = TRUE
    /\ inputBuffer' = IF termOpen THEN inputBuffer ELSE <<>>
    /\ typed' = IF termOpen THEN typed ELSE <<>>

\* variant: execFancy without the `if (opts.silent) throw nope` test
ExecFancyNoSilentCheck(t) ==
    LET r == task[t] IN
    /\ r.ex = "call"
    /\ GetRobotPyTerminal
    /\ IF currentProcess # NoProc
       THEN /\ Step(t, [LogIfReconciling(r, "ask:cancel") EXCEPT !.ex = "prompt"])
            /\ UNCHANGED <<procs, spawned, currentProcess>>
       ELSE Spawn(t, r, procs)
    /\ lastEvent' = NoEvent
    /\ UNCHANGED <<venvExists, interpreterSet, hasWorkspace, windows>>

\* execFancy, from its call to its first suspension
ExecFancy(t) ==
    LET r == task[t] IN
    /\ r.ex = "call"
    /\ GetRobotPyTerminal
    /\ IF currentProcess # NoProc
       THEN /\ IF IsSilent(r.pc)
               THEN Step(t, [r EXCEPT !.ex = "fail", !.err = NopeErr,
                                      !.subLog = LogIfSub(r, "fail")])
               ELSE Step(t, [LogIfReconciling(r, "ask:cancel") EXCEPT
                                !.ex = "prompt"])
            /\ UNCHANGED <<procs, spawned, currentProcess>>
       ELSE Spawn(t, r, procs)
    /\ lastEvent' = NoEvent
    /\ UNCHANGED <<venvExists, interpreterSet, hasWorkspace, windows>>

\* variant: the running process is killed before the answer is looked at
AnswerExecPromptKillsFirst(t, yes) ==
    LET r == task[t] IN
    /\ Quiescent
    /\ r.ex = "prompt"
    /\ IF ~yes
       THEN /\ Step(t, [LogIfReconciling(r, "cancel:no") EXCEPT
                                 !.ex = "fail", !.err = NopeErr,
                                 !.subLog = LogIfSub(r, "fail")])
            /\ procs' = KillCurrentProcess(procs)
            /\ currentProcess' = NoProc
            /\ UNCHANGED spawned
       ELSE IF currentProcess = NoProc
       THEN /\ Step(t, [LogIfReconciling(r, "cancel:yes") EXCEPT
                                 !.ex = "fail", !.err = TypeErr,
                                 !.subLog = LogIfSub(r, "fail")])
            /\ UNCHANGED <<procs, spawned, currentProcess>>
       ELSE Spawn(t, LogIfReconciling(r, "cancel:yes"), KillCurrentProcess(procs))
    /\ lastEvent' = [type |-> IF yes THEN "accepted" ELSE "declined",
                     pid |-> currentProcess, owner |-> t,
                     code |-> Null, signal |-> NoSignal,
                     data |-> <<>>, echo |-> <<>>, version |-> <<>>,
                     dropped |-> FALSE]
    /\ UNCHANGED <<termOpen, inputBuffer, typed, venvExists, interpreterSet,
                   hasWorkspace, windows>>

\* the user answers (or dismisses) the "Would you like to cancel it?" prompt
\* raised by execFancy
AnswerExecPrompt(t, yes) ==
    LET r == task[t] IN
    /\ Quiescent
    /\ r.ex = "prompt"
    /\ IF ~yes
       THEN /\ Step(t, [LogIfReconciling(r, "cancel:no") EXCEPT
                                 !.ex = "fail", !.err = NopeErr,
                                 !.subLog = LogIfSub(r, "fail")])
            /\ UNCHANGED <<procs, spawned, currentProcess>>
       ELSE IF currentProcess = NoProc
       THEN \* `currentProcess.cmdString` of undefined throws
            /\ Step(t, [LogIfReconciling(r, "cancel:yes") EXCEPT
                                 !.ex = "fail", !.err = TypeErr,
                                 !.subLog = LogIfSub(r, "fail")])
            /\ UNCHANGED <<procs, spawned, currentProcess>>
       ELSE Spawn(t, LogIfReconciling(r, "cancel:yes"), KillCurrentProcess(procs))
    /\ lastEvent' = [type |-> IF yes THEN "accepted" ELSE "declined",
                     pid |-> currentProcess, owner |-> t,
                     code |-> Null, signal |-> NoSignal,
                     data |-> <<>>, echo |-> <<>>, version |-> <<>>,
                     dropped |-> FALSE]
    /\ UNCHANGED <<termOpen, inputBuffer, typed, venvExists, interpreterSet,
                   hasWorkspace, windows>>

Without(ps, p) == [q \in DOMAIN ps \ {p} |-> ps[q]]

\* the 'data' handler of proc.stdout or proc.stderr, given one chunk
ProcData(p, stream, chunk) ==
    LET pr == procs[p] IN
    /\ Quiescent
    /\ p \in DOMAIN procs
    /\ procs' = [procs EXCEPT
                   ![p].stdout = IF stream = "stdout" THEN @ \o chunk ELSE @,
                   ![p].stderr = IF stream = "stderr" THEN @ \o chunk ELSE @,
                   ![p].channel = @ \o chunk,
                   ![p].terminal = MaybeWriteToTerminal(pr.silent, @, chunk),
                   ![p].received = Append(@, chunk)]
    /\ lastEvent' = [NoEvent EXCEPT !.type = "data", !.pid = p, !.data = chunk]
    /\ errored' = errored /\ charged' = Overtaking
    /\ UNCHANGED <<task, initialized, mark, spawned, budget, currentProcess,
                   termOpen, inputBuffer, typed, venvExists, interpreterSet,
                   hasWorkspace, windows>>

\* the 'close' handler, with the stdout/stderr text accumulated by the 'data'
\* handlers
ProcClose(p, code, signal, so, se) ==
    LET pr == procs[p]
        r  == task[pr.owner]
        fate == IF code = 0 THEN "ok" ELSE "fail" IN
    /\ Quiescent
    /\ p \in DOMAIN procs
    /\ currentProcess' = NoProc
    /\ procs' = Without(procs, p)
    /\ Step(pr.owner,
            IF CloseRejects(code)
            THEN [r EXCEPT !.ex = "fail", !.pid = NoProc,
                           !.err = CloseMsg(code, signal),
                           !.subLog = LogIfSub(r, fate)]
            ELSE [r EXCEPT !.ex = "ok", !.pid = NoProc, !.err = NoErr,
                           !.stdout = so, !.stderr = se,
                           !.subLog = LogIfSub(r, fate)])
    /\ lastEvent' = [type |-> "close", pid |-> p, owner |-> pr.owner,
                     code |-> code, signal |-> signal,
                     data |-> <<>>, echo |-> <<>>, version |-> <<>>,
                     dropped |-> FALSE]
    /\ UNCHANGED <<spawned, termOpen, inputBuffer, typed, venvExists, interpreterSet,
                   hasWorkspace, windows>>

\* the running `-m venv` child writes the venv directory, which every call
\* chain finds on disk from then on (fs.existsSync); the extension has no
\* handler for it.  A write that falls inside a synchronous run of the
\* extension is seen by it as one before or one after that run.
ChildMakesVenv(p) ==
    /\ Drained
    /\ p \in DOMAIN procs
    /\ procs[p].kind = "createVenv"
    /\ ~venvExists \/ ~procs[p].made
    /\ venvExists' = TRUE
    /\ procs' = [procs EXCEPT ![p].made = TRUE]
    /\ lastEvent' = [NoEvent EXCEPT !.type = "venv made", !.pid = p,
                                    !.owner = procs[p].owner]
    /\ UNCHANGED <<task, initialized, mark, errored, charged, spawned, budget,
                   currentProcess, termOpen, inputBuffer, typed, interpreterSet,
                   hasWorkspace, windows>>

\* the negative errno a failed spawn gives its 'close' as exit code: -2
\* (ENOENT, no such file) or -13 (EACCES, file not executable)
SpawnErrnos == {-2, -13}

\* the 'error' handler: the process could not be spawned (errno).  The slot
\* is emptied and the promise rejected; the child's 'close' event is still to
\* come.
ProcError(p, errno) ==
    LET pr == procs[p]
        r  == task[pr.owner] IN
    /\ Quiescent
    /\ p \in DOMAIN procs
    /\ currentProcess' = NoProc
    /\ procs' = Without(procs, p)
    /\ errored' = (p :> [owner |-> pr.owner, code |-> errno]) @@ errored
    /\ charged' = charged + 1
    /\ SetTask(pr.owner, [r EXCEPT !.ex = "fail", !.pid = NoProc, !.err = SpawnErr,
                                   !.subLog = LogIfSub(r, "fail")])
    /\ MarkAfter(pr.owner, r, FALSE)
    /\ lastEvent' = [type |-> "error", pid |-> p, owner |-> pr.owner,
                     code |-> Null, signal |-> NoSignal,
                     data |-> <<>>, echo |-> <<>>, version |-> <<>>,
                     dropped |-> FALSE]
    /\ UNCHANGED <<spawned, termOpen, inputBuffer, typed, venvExists, interpreterSet,
                   hasWorkspace, windows>>

\* the 'close' handler of a child that failed to spawn, in a later turn of
\* the event loop than its 'error': the slot is emptied once more, whatever
\* it holds by now; the rejection of the promise, already rejected, has no
\* effect
ProcErrorClose(p) ==
    /\ Quiescent
    /\ p \in DOMAIN errored
    /\ currentProcess' = NoProc
    /\ errored' = Without(errored, p)
    /\ lastEvent' = [type |-> "close after error", pid |-> p,
                     owner |-> errored[p].owner,
                     code |-> errored[p].code, signal |-> NoSignal,
                     data |-> <<>>, echo |-> <<>>, version |-> <<>>,
                     dropped |-> FALSE]
    /\ UNCHANGED <<task, initialized, mark, procs, charged, spawned, budget,
                   termOpen, inputBuffer, typed, venvExists, interpreterSet,
                   hasWorkspace, windows>>

(***************************************************************************)
(* Pseudo terminal                                                         *)
(***************************************************************************)
\* A chunk of terminal input is a sequence of UTF-16 code units, each a
\* one-character string.
ETX == "ETX"   \* \x03, Ctrl-C
BS  == "BS"    \* \x08
DEL == "DEL"   \* \x7f
CR  == "\r"
LF  == "\n"

\* the white space String.prototype.trim() removes
Whitespace == JsWhiteSpace

RECURSIVE TrimStart(_)
TrimStart(s) ==
    IF s # <<>> /\ Head(s) \in Whitespace THEN TrimStart(Tail(s)) ELSE s

RECURSIVE TrimEnd(_)
TrimEnd(s) ==
    IF s # <<>> /\ s[Len(s)] \in Whitespace THEN TrimEnd(SubSeq(s, 1, Len(s) - 1))
    ELSE s

\* data.trim()
Trim(s) == TrimEnd(TrimStart(s))

\* s ends with suffix: the `$` of an unanchored pattern
EndsWith(s, suffix) ==
    /\ Len(suffix) <= Len(s)
    /\ SubSeq(s, Len(s) - Len(suffix) + 1, Len(s)) = suffix

ScriptsDir == <<"S", "c", "r", "i", "p", "t", "s">>
BinDir     == <<"b", "i", "n">>
Activate   == <<"a", "c", "t", "i", "v", "a", "t", "e">>
BatSuffix  == <<".", "b", "a", "t">>
Ps1Suffix  == <<".", "p", "s", "1">>

\* s.match(/(Scripts|bin)[/\\]activate(\.(bat|ps1))?$/)
MatchesActivate(s) ==
    \E dir \in {ScriptsDir, BinDir} : \E sep \in {"/", "\\"} :
      \E suffix \in {<<>>, BatSuffix, Ps1Suffix} :
        EndsWith(s, dir \o <<sep>> \o Activate \o suffix)

\* variant: the pattern is matched against the chunk as received
IsActivationUntrimmed(data) == MatchesActivate(data)

\* data.trim().match(...): the Python extension's venv activation command
IsActivation(data) == MatchesActivate(Trim(data))

\* data === "\r" || data === "\n"
IsEnter(data) == data = <<CR>> \/ data = <<LF>>

\* variant: only \x08 is taken as a backspace
IsBackspaceOnlyBS(data) == data = <<BS>>

\* data === "\x08" || data === "\x7f"
IsBackspace(data) == data = <<BS>> \/ data = <<DEL>>

\* inputBuffer.slice(0, -1)
DropLast(s) == SubSeq(s, 1, Len(s) - 1)

\* currentProcess?.proc.stdin.write(line)
WriteStdin(ps, line) ==
    IF currentProcess \in DOMAIN ps
    THEN [ps EXCEPT ![currentProcess].stdin = Append(@, line)]
    ELSE ps

\* history: handleInput was given data and wrote echo to the terminal
InputEvent(data, echo) ==
    [NoEvent EXCEPT !.type = IF data = <<ETX>> THEN "ctrl-c" ELSE "input",
                    !.pid = currentProcess, !.data = data, !.echo = echo,
                    !.dropped = /\ IsActivation(data) \/ data = <<ETX>>
                                /\ inputBuffer # <<>>]

\* variant: an activation command is ignored without `inputBuffer = ""`
HandleInputKeepsLine(data) ==
    /\ Quiescent
    /\ termOpen
    /\ IF IsActivation(data)
       THEN /\ inputBuffer' = inputBuffer
            /\ typed' = typed
            /\ lastEvent' = InputEvent(data, <<>>)
            /\ UNCHANGED <<procs, currentProcess>>
       ELSE IF data = <<ETX>>
       THEN /\ lastEvent' = InputEvent(data, <<"^", "C", CR, LF>>)
            /\ procs' = KillCurrentProcess(procs)
            /\ currentProcess' = NoProc
            /\ inputBuffer' = <<>>
            /\ typed' = <<>>
       ELSE IF IsEnter(data)
       THEN /\ lastEvent' = InputEvent(data, <<CR, LF>>)
            /\ procs' = WriteStdin(procs, inputBuffer \o <<LF>>)
            /\ inputBuffer' = <<>>
            /\ typed' = <<>>
            /\ UNCHANGED currentProcess
       ELSE IF IsBackspace(data)
       THEN /\ IF Len(inputBuffer) > 0
               THEN /\ inputBuffer' = DropLast(inputBuffer)
                    /\ lastEvent' = InputEvent(data, <<BS, " ", BS>>)
               ELSE /\ inputBuffer' = inputBuffer
                    /\ lastEvent' = InputEvent(data, <<>>)
            /\ typed' = Append(typed, data)
            /\ UNCHANGED <<procs, currentProcess>>
       ELSE /\ inputBuffer' = inputBuffer \o data
            /\ lastEvent' = InputEvent(data, data)
            /\ typed' = Append(typed, data)
            /\ UNCHANGED <<procs, currentProcess>>
    /\ errored' = errored /\ charged' = Overtaking
    /\ UNCHANGED <<task, initialized, mark, spawned, budget, termOpen, venvExists,
                   interpreterSet, hasWorkspace, windows>>

\* pty.handleInput(data)
HandleInput(data) ==
    /\ Quiescent
    /\ termOpen
    /\ IF IsActivation(data)
       THEN /\ inputBuffer' = <<>>
            /\ typed' = <<>>
            /\ lastEvent' = InputEvent(data, <<>>)
            /\ UNCHANGED <<procs, currentProcess>>
       ELSE IF data = <<ETX>>
       THEN /\ lastEvent' = InputEvent(data, <<"^", "C", CR, LF>>)
            /\ procs' = KillCurrentProcess(procs)
            /\ currentProcess' = NoProc
            /\ inputBuffer' = <<>>
            /\ typed' = <<>>
       ELSE IF IsEnter(data)
       THEN /\ lastEvent' = InputEvent(data, <<CR, LF>>)
            /\ procs' = WriteStdin(procs, inputBuffer \o <<LF>>)
            /\ inputBuffer' = <<>>
            /\ typed' = <<>>
            /\ UNCHANGED currentProcess
       ELSE IF IsBackspace(data)
       THEN /\ IF Len(inputBuffer) > 0
               THEN /\ inputBuffer' = DropLast(inputBuffer)
                    /\ lastEvent' = InputEvent(data, <<BS, " ", BS>>)
               ELSE /\ inputBuffer' = inputBuffer
                    /\ lastEvent' = InputEvent(data, <<>>)
            /\ typed' = Append(typed, data)
            /\ UNCHANGED <<procs, currentProcess>>
       ELSE /\ inputBuffer' = inputBuffer \o data
            /\ lastEvent' = InputEvent(data, data)
            /\ typed' = Append(typed, data)
            /\ UNCHANGED <<procs, currentProcess>>
    /\ errored' = errored /\ charged' = Overtaking
    /\ UNCHANGED <<task, initialized, mark, spawned, budget, termOpen, venvExists,
                   interpreterSet, hasWorkspace, windows>>

\* pty.handleInput(data) for the interrupt byte
HandleCtrlC == HandleInput(<<ETX>>)

\* variant: closing the terminal forgets the process without killing it
TerminalCloseNoKill ==
    /\ Quiescent
    /\ termOpen
    /\ procs' = procs
    /\ currentProcess' = NoProc
    /\ termOpen' = FALSE
    /\ lastEvent' = [NoEvent EXCEPT !.type = "terminal closed", !.pid = currentProcess]
    /\ errored' = errored /\ charged' = Overtaking
    /\ UNCHANGED <<task, initialized, mark, spawned, budget, inputBuffer, typed, venvExists,
                   interpreterSet, hasWorkspace, windows>>

\* pty.close(): the user closed the terminal
TerminalClose ==
    /\ Quiescent
    /\ termOpen
    /\ procs' = KillCurrentProcess(procs)
    /\ currentProcess' = NoProc
    /\ termOpen' = FALSE
    /\ lastEvent' = [NoEvent EXCEPT !.type = "terminal closed", !.pid = currentProcess]
    /\ errored' = errored /\ charged' = Overtaking
    /\ UNCHANGED <<task, initialized, mark, spawned, budget, inputBuffer, typed, venvExists,
                   interpreterSet, hasWorkspace, windows>>

(***************************************************************************)
(* Steps of a call chain that touch only its own record                    *)
(***************************************************************************)
Local(t, r) ==
    /\ Step(t, r)
    /\ lastEvent' = NoEvent
    /\ UNCHANGED <<procs, spawned, currentProcess, termOpen, inputBuffer, typed, venvExists,
                   interpreterSet, hasWorkspace, windows>>

(***************************************************************************)
(* Environment prober: checkEnvironment and findPythonCommand              *)
(***************************************************************************)
\* the PowerShell query is awaited on Windows only; then the assertions
ToPolicy(r) ==
    IF windows THEN [r EXCEPT !.pc = "policy", !.ex = "none"]
    ELSE [r EXCEPT !.pc = "checked", !.ex = "none"]

\* variant: hasVenvFolder is not set when the venv directory exists
ToVenvCheckForgetsFolder(r) ==
    IF venvExists
    THEN [r EXCEPT !.pc = "venvProbe", !.i = 1, !.ex = "call"]
    ELSE ToPolicy(r)

\* if (fs.existsSync(getVenvPath(rootPath))) findPythonCommand(venvPath)
ToVenvCheck(r) ==
    IF venvExists
    THEN [r EXCEPT !.checks.hasVenvFolder = TRUE,
                   !.pc = "venvProbe", !.i = 1, !.ex = "call"]
    ELSE ToPolicy(r)

\* the project descriptor was read (or not); then findPythonCommand() starts
\* with its first candidate
ReadFileDone(t, content) ==
    LET r == task[t] IN
    /\ Quiescent
    /\ r.pc = "readFile"
    /\ Local(t, [r EXCEPT !.checks.hasRobotPyProjectFile = (content = "marker"),
                          !.pc = "sysProbe", !.i = 1, !.ex = "call"])

NumCandidates(pc) ==
    IF pc = "sysProbe" THEN NumSystemCandidates ELSE NumVenvCandidates

\* history: findPythonCommand(venvPath?) went through one candidate and has
\* version to return (NoMatch: nothing yet, or null after the last candidate)
LocatedEvent(t, pc, version) ==
    [NoEvent EXCEPT !.type = IF pc = "sysProbe" THEN "located system"
                              ELSE "located venv",
                    !.owner = t, !.version = version]

\* variant: findPythonCommand catches a candidate's failure unless it is the
\* rejection of a busy slot
ResumeFindPythonRethrowsBusy(t) ==
    LET r   == task[t]
        out == FirstNonEmpty(r.stdout, r.stderr)
        c == [r EXCEPT !.stdout = <<>>, !.stderr = <<>>, !.err = NoErr]
    IN
    /\ r.pc \in VersionProbePcs
    /\ r.ex \in {"ok", "fail"}
    /\ \E version \in {MatchVersion(out)} :
       \E found \in {r.ex = "ok" /\ version # NoMatch} :
         /\ lastEvent' = LocatedEvent(t, r.pc, IF found THEN version ELSE NoMatch)
         /\ UNCHANGED <<procs, spawned, currentProcess, termOpen, inputBuffer, typed,
                        venvExists, interpreterSet, hasWorkspace, windows>>
         /\ Step(t,
              IF r.ex = "fail" /\ r.err = NopeErr THEN Settled("rejected")
              ELSE IF found
              THEN IF r.pc = "sysProbe"
                   THEN IF IsNewEnough(version)
                        THEN [c EXCEPT !.checks.hasSystemPython = TRUE,
                                       !.checks.isSystemPythonNewEnough = TRUE,
                                       !.pc = "sysVenvMod", !.i = 0, !.ex = "call"]
                        ELSE ToVenvCheck([c EXCEPT !.checks.hasSystemPython = TRUE,
                                                   !.i = 0])
                   ELSE IF IsNewEnough(version)
                        THEN [c EXCEPT !.checks.hasVenvPython = TRUE,
                                       !.checks.isVenvPythonNewEnough = TRUE,
                                       !.pc = "venvRobotpy", !.i = 0, !.ex = "call"]
                        ELSE ToPolicy([c EXCEPT !.checks.hasVenvPython = TRUE,
                                                !.i = 0])
              ELSE IF r.i < NumCandidates(r.pc)
                   THEN [c EXCEPT !.i = r.i + 1, !.ex = "call"]
                   ELSE IF r.pc = "sysProbe" THEN ToVenvCheck([c EXCEPT !.i = 0])
                        ELSE ToPolicy([c EXCEPT !.i = 0]))

\* findPythonCommand after one candidate's `--version` run settled, and the
\* version gate of checkEnvironment on its result
ResumeFindPython(t) ==
    LET r   == task[t]
        out == FirstNonEmpty(r.stdout, r.stderr)
        c == [r EXCEPT !.stdout = <<>>, !.stderr = <<>>, !.err = NoErr]
    IN
    /\ r.pc \in VersionProbePcs
    /\ r.ex \in {"ok", "fail"}
    /\ \E version \in {MatchVersion(out)} :
       \E found \in {r.ex = "ok" /\ version # NoMatch} :
         /\ lastEvent' = LocatedEvent(t, r.pc, IF found THEN version ELSE NoMatch)
         /\ UNCHANGED <<procs, spawned, currentProcess, termOpen, inputBuffer, typed,
                        venvExists, interpreterSet, hasWorkspace, windows>>
         /\ Step(t,
              IF found
              THEN IF r.pc = "sysProbe"
                   THEN IF IsNewEnough(version)
                        THEN [c EXCEPT !.checks.hasSystemPython = TRUE,
                                       !.checks.isSystemPythonNewEnough = TRUE,
                                       !.pc = "sysVenvMod", !.i = 0, !.ex = "call"]
                        ELSE ToVenvCheck([c EXCEPT !.checks.hasSystemPython = TRUE,
                                                   !.i = 0])
                   ELSE IF IsNewEnough(version)
                        THEN [c EXCEPT !.checks.hasVenvPython = TRUE,
                                       !.checks.isVenvPythonNewEnough = TRUE,
                                       !.pc = "venvRobotpy", !.i = 0, !.ex = "call"]
                        ELSE ToPolicy([c EXCEPT !.checks.hasVenvPython = TRUE,
                                                !.i = 0])
              ELSE IF r.i < NumCandidates(r.pc)
                   THEN [c EXCEPT !.i = r.i + 1, !.ex = "call"]
                   ELSE IF r.pc = "sysProbe" THEN ToVenvCheck([c EXCEPT !.i = 0])
                        ELSE ToPolicy([c EXCEPT !.i = 0]))

\* checkEnvironment after `-c "import venv"` settled
ResumeVenvModule(t) ==
    LET r == task[t] IN
    /\ r.pc = "sysVenvMod"
    /\ r.ex \in {"ok", "fail"}
    /\ Local(t, ToVenvCheck([r EXCEPT !.checks.hasSystemPythonVenvModule = (r.ex = "ok"),
                                      !.err = NoErr]))

\* checkEnvironment after `-c "import robotpy"` settled
ResumeRobotpyImport(t) ==
    LET r == task[t] IN
    /\ r.pc = "venvRobotpy"
    /\ r.ex \in {"ok", "fail"}
    /\ Local(t, ToPolicy([r EXCEPT !.checks.isVenvReady = (r.ex = "ok"),
                                   !.err = NoErr]))

\* the Get-ExecutionPolicy query settled
PolicyDone(t, answer) ==
    LET r == task[t] IN
    /\ Quiescent
    /\ r.pc = "policy"
    /\ Local(t, [r EXCEPT !.checks.winExecutionPolicyOk = (answer = "allowed"),
                          !.didError = (answer = "error"),
                          !.pc = "checked"])

\* the assert.ok calls at the end of checkEnvironment
ChecksConsistent(c) ==
    /\ c.isSystemPythonNewEnough => c.hasSystemPython
    /\ c.hasSystemPythonVenvModule => (c.hasSystemPython /\ c.isSystemPythonNewEnough)
    /\ c.isVenvPythonNewEnough => c.hasVenvFolder
    /\ c.isVenvReady => (c.hasVenvFolder /\ c.isVenvPythonNewEnough)

\* variant: ensureRobotPyReady without the `if (checkError) return false`
AfterCheckEnvironmentIgnoresError(t) ==
    LET r == task[t] IN
    /\ r.pc = "checked"
    /\ Local(t,
         IF ~ChecksConsistent(r.checks) THEN Settled("rejected")
         ELSE IF t = Open
              THEN IF ~r.checks.hasRobotPyProjectFile
                   THEN Logged(Settled("resolved"), "no project file")
                   ELSE [r EXCEPT !.pc = "ensure"]
              ELSE [r EXCEPT !.pc = "ensure"])

\* variant: onProjectOpen without the `if (!checks.hasRobotPyProjectFile) return`
AfterCheckEnvironmentNoDescriptorCheck(t) ==
    LET r == task[t] IN
    /\ r.pc = "checked"
    /\ Local(t,
         IF ~ChecksConsistent(r.checks) THEN Settled("rejected")
         ELSE IF t = Open THEN [r EXCEPT !.pc = "ensure"]
              ELSE IF r.didError THEN Settled("resolved")
                   ELSE [r EXCEPT !.pc = "ensure"])

\* the end of checkEnvironment and what its caller does with the report:
\* onProjectOpen (warn on error, stop unless there is a project file) or
\* ensureRobotPyReady (stop on error)
AfterCheckEnvironment(t) ==
    LET r == task[t] IN
    /\ r.pc = "checked"
    /\ Local(t,
         IF ~ChecksConsistent(r.checks) THEN Settled("rejected")
         ELSE IF t = Open
              THEN IF ~r.checks.hasRobotPyProjectFile
                   THEN Logged(Settled("resolved"), "no project file")
                   ELSE [r EXCEPT !.pc = "ensure"]
              ELSE IF r.didError THEN Settled("resolved")
                   ELSE [r EXCEPT !.pc = "ensure"])

(***************************************************************************)
(* Environment reconciler: ensureVenv, createVenv, installLatestRobotPy    *)
(***************************************************************************)
\* variant: checkSystemPython without the venv-module test
CheckSystemPythonIgnoresVenvModule(c) ==
    c.hasSystemPython /\ c.isSystemPythonNewEnough

\* checkSystemPython(): the three remediation errors
CheckSystemPython(c) ==
    c.hasSystemPython /\ c.isSystemPythonNewEnough /\ c.hasSystemPythonVenvModule

\* ensureVenv returns ok to its caller; the report is not read again
Ensured(r, ok) == [r EXCEPT !.pc = "ensured", !.ex = "none", !.err = NoErr,
                            !.venvOk = ok, !.checks = InitialChecks,
                            !.didError = FALSE]

\* the catch block of ensureVenv: the generic error message, and false
SetupFailed(r) == Ensured(Logged(r, "error:setup failed"), FALSE)

\* variant: a failed execution-policy check makes ensureVenv give up
EnsureVenvFromPolicyBlocks(r) ==
    LET c == r.checks IN
    IF ~c.winExecutionPolicyOk THEN Ensured(Logged(r, "warn:policy"), FALSE)
    ELSE IF c.isVenvReady THEN Ensured(r, TRUE)
    ELSE IF ~c.hasVenvFolder
         THEN IF ~CheckSystemPython(c) THEN Ensured(Logged(r, "error:remediation"), FALSE)
              ELSE Logged([r EXCEPT !.pc = "createPrompt"], "ask:create")
    ELSE IF ~c.isVenvPythonNewEnough
         THEN IF ~CheckSystemPython(c) THEN Ensured(Logged(r, "error:remediation"), FALSE)
              ELSE Logged([r EXCEPT !.pc = "replacePrompt"], "ask:replace")
    ELSE [r EXCEPT !.pc = "install", !.ex = "call"]

\* variant: a missing venv is created without asking
EnsureVenvFromCreatesUnasked(r) ==
    LET c == r.checks
        w == IF c.winExecutionPolicyOk THEN r ELSE Logged(r, "warn:policy") IN
    IF c.isVenvReady THEN Ensured(w, TRUE)
    ELSE IF ~c.hasVenvFolder
         THEN IF ~CheckSystemPython(c) THEN Ensured(Logged(w, "error:remediation"), FALSE)
              ELSE [w EXCEPT !.pc = "createVenv", !.ex = "call"]
    ELSE IF ~c.isVenvPythonNewEnough
         THEN IF ~CheckSystemPython(c) THEN Ensured(Logged(w, "error:remediation"), FALSE)
              ELSE Logged([w EXCEPT !.pc = "replacePrompt"], "ask:replace")
    ELSE [w EXCEPT !.pc = "install", !.ex = "call"]

\* variant: ensureVenv without the early exit on a ready venv
EnsureVenvFromNoEarlyExit(r) ==
    LET c == r.checks
        w == IF c.winExecutionPolicyOk THEN r ELSE Logged(r, "warn:policy") IN
    IF ~c.hasVenvFolder
    THEN IF ~CheckSystemPython(c) THEN Ensured(Logged(w, "error:remediation"), FALSE)
         ELSE Logged([w EXCEPT !.pc = "createPrompt"], "ask:create")
    ELSE IF ~c.isVenvPythonNewEnough
         THEN IF ~CheckSystemPython(c) THEN Ensured(Logged(w, "error:remediation"), FALSE)
              ELSE Logged([w EXCEPT !.pc = "replacePrompt"], "ask:replace")
    ELSE [w EXCEPT !.pc = "install", !.ex = "call"]

\* ensureVenv on record r, from its call to its first suspension or its return:
\* the policy warning, the early exit, checkSystemPython and the prompt of the
\* branch taken
EnsureVenvFrom(r) ==
    LET c == r.checks
        w == IF c.winExecutionPolicyOk THEN r ELSE Logged(r, "warn:policy") IN
    IF c.isVenvReady THEN Ensured(w, TRUE)
    ELSE IF ~c.hasVenvFolder
         THEN IF ~CheckSystemPython(c) THEN Ensured(Logged(w, "error:remediation"), FALSE)
              ELSE Logged([w EXCEPT !.pc = "createPrompt"], "ask:create")
    ELSE IF ~c.isVenvPythonNewEnough
         THEN IF ~CheckSystemPython(c) THEN Ensured(Logged(w, "error:remediation"), FALSE)
              ELSE Logged([w EXCEPT !.pc = "replacePrompt"], "ask:replace")
    ELSE [w EXCEPT !.pc = "install", !.ex = "call"]

EnsureVenv(t) ==
    /\ task[t].pc = "ensure"
    /\ Local(t, EnsureVenvFrom(task[t]))

\* whether this answer makes ensureVenv delete the venv directory
DeletesVenv(r, yes) == yes /\ r.pc = "replacePrompt"

\* ensureVenv after the answer to its prompt: on Yes the tear-down branch
\* deletes the venv directory, and both branches call createVenv
VenvPromptAnswered(r, yes) ==
    IF ~yes THEN Ensured(Logged(r, "no"), FALSE)
    ELSE LET a == Logged(r, "yes")
             d == IF DeletesVenv(r, yes) THEN Logged(a, "rm:venv") ELSE a
         IN  [d EXCEPT !.pc = "createVenv", !.ex = "call"]

\* variant: the venv directory is deleted before the answer is looked at
AnswerVenvPromptDeletesFirst(t, yes) ==
    LET r == task[t]
        d == IF r.pc = "replacePrompt" THEN Logged(r, "rm:venv") ELSE r IN
    /\ Quiescent
    /\ r.pc \in {"createPrompt", "replacePrompt"}
    /\ Step(t, IF yes THEN [Logged(d, "yes") EXCEPT !.pc = "createVenv", !.ex = "call"]
               ELSE Ensured(Logged(d, "no"), FALSE))
    /\ venvExists' = IF r.pc = "replacePrompt" THEN FALSE ELSE venvExists
    /\ lastEvent' = NoEvent
    /\ UNCHANGED <<procs, spawned, currentProcess, termOpen, inputBuffer, typed,
                   interpreterSet, hasWorkspace, windows>>

\* the user answers "Would you like to create one?" or "Would you like to tear
\* it down and recreate it?"
AnswerVenvPrompt(t, yes) ==
    LET r == task[t] IN
    /\ Quiescent
    /\ r.pc \in {"createPrompt", "replacePrompt"}
    /\ Step(t, VenvPromptAnswered(r, yes))
    /\ venvExists' = IF DeletesVenv(r, yes) THEN FALSE ELSE venvExists
    /\ lastEvent' = NoEvent
    /\ UNCHANGED <<procs, spawned, currentProcess, termOpen, inputBuffer, typed,
                   interpreterSet, hasWorkspace, windows>>

\* variant: createVenv does not call setWorkspacePythonInterpreter
CreateVenvResumedSkipsConfig(r) ==
    IF r.ex = "ok" THEN Logged([r EXCEPT !.pc = "install", !.ex = "call"], "created")
    ELSE SetupFailed(r)

\* variant: a failed creation is not noticed
CreateVenvResumedIgnoresFailure(r) ==
    IF r.ex = "ok" THEN Logged([r EXCEPT !.pc = "setInterp", !.ex = "none"], "created")
    ELSE [r EXCEPT !.pc = "setInterp", !.ex = "none", !.err = NoErr]

\* createVenv after `-m venv` settled: on success go on to
\* setWorkspacePythonInterpreter, on failure ensureVenv's catch returns false
CreateVenvResumed(r) ==
    IF r.ex = "ok" THEN Logged([r EXCEPT !.pc = "setInterp", !.ex = "none"], "created")
    ELSE SetupFailed(r)

ResumeCreateVenv(t) ==
    LET r == task[t] IN
    /\ r.pc = "createVenv"
    /\ r.ex \in {"ok", "fail"}
    /\ Local(t, CreateVenvResumed(r))

\* config.update("defaultInterpreterPath", ...) settled; then
\* installLatestRobotPy is called
ConfigUpdated(r, ok) ==
    IF ok THEN Logged([r EXCEPT !.pc = "install", !.ex = "call"], "configured")
    ELSE SetupFailed(r)

ConfigUpdateDone(t, ok) ==
    LET r == task[t] IN
    /\ Quiescent
    /\ r.pc = "setInterp"
    /\ Step(t, ConfigUpdated(r, ok))
    /\ interpreterSet' = (interpreterSet \/ ok)
    /\ lastEvent' = NoEvent
    /\ UNCHANGED <<procs, spawned, currentProcess, termOpen, inputBuffer, typed, venvExists,
                   hasWorkspace, windows>>

\* ensureVenv after `pip install --upgrade robotpy` settled
InstallResumed(r) ==
    IF r.ex = "ok" THEN Ensured(Logged(r, "installed"), TRUE) ELSE SetupFailed(r)

ResumeInstall(t) ==
    LET r == task[t] IN
    /\ r.pc = "install"
    /\ r.ex \in {"ok", "fail"}
    /\ Local(t, InstallResumed(r))

(***************************************************************************)
(* Command dispatcher: onProjectOpen and robotpyCommands                   *)
(***************************************************************************)
\* the first subcommand of a list: robotpyCommand(mustGetRootPath(), cmd)
FirstSubcommand(r, cmds) ==
    IF ~hasWorkspace THEN Settled("rejected")
    ELSE [r EXCEPT !.cmds = cmds, !.k = 1, !.pc = "subcmd", !.ex = "call"]

\* onProjectOpen up to its first suspension
OpenStart(t) ==
    LET r == task[t] IN
    /\ t = Open
    /\ r.pc = "start"
    /\ Local(t, IF ~hasWorkspace THEN Settled("resolved")
                ELSE [r EXCEPT !.pc = "readFile"])

\* what the caller of ensureVenv does with its result: onProjectOpen asks
\* whether to sync, ensureRobotPyReady/robotpyCommands starts the subcommands
AfterEnsureVenv(t) ==
    LET r == task[t] IN
    /\ r.pc = "ensured"
    /\ Local(t, IF ~r.venvOk THEN Settled("resolved")
                ELSE IF t = Open THEN [r EXCEPT !.pc = "syncPrompt", !.log = <<>>]
                ELSE FirstSubcommand([r EXCEPT !.log = <<>>], r.cmds))

\* the user answers "Would you like to run `robotpy sync`?"
AnswerSyncPrompt(t, yes) ==
    LET r == task[t] IN
    /\ Quiescent
    /\ r.pc = "syncPrompt"
    /\ Local(t, IF yes THEN FirstSubcommand(r, OpenSyncList)
                ELSE Settled("resolved"))

\* variant: the loop goes on to the next subcommand after a rejection
ResumeSubcommandIgnoresFailure(t) ==
    LET r == task[t] IN
    /\ r.pc = "subcmd"
    /\ r.ex \in {"ok", "fail"}
    /\ Local(t, IF r.k < Len(r.cmds)
                THEN [r EXCEPT !.k = r.k + 1, !.ex = "call", !.err = NoErr]
                ELSE Settled("resolved"))

\* a subcommand's execFancy settled: the next subcommand, or the end of the
\* sequence; a rejection propagates out of the sequence
ResumeSubcommand(t) ==
    LET r == task[t] IN
    /\ r.pc = "subcmd"
    /\ r.ex \in {"ok", "fail"}
    /\ Local(t, IF r.ex = "fail" THEN Settled("rejected")
                ELSE IF r.k < Len(r.cmds)
                     THEN IF ~hasWorkspace THEN Settled("rejected")
                          ELSE [r EXCEPT !.k = r.k + 1, !.ex = "call"]
                     ELSE Settled("resolved"))

\* variant: robotpyCommands does not wait for extensionInitialized
AwaitInitializedSkipped(r) == [r EXCEPT !.pc = "gate"]

\* `await extensionInitialized` at the top of robotpyCommands
AwaitInitialized(r) ==
    IF initialized THEN [r EXCEPT !.pc = "gate"] ELSE [r EXCEPT !.pc = "awaitInit"]

\* the user invokes a registered command with argument lists cmds
InvokeCommand(t, cmds) ==
    /\ Quiescent
    /\ t \in Commands
    /\ task[t].pc \in {"idle", "done"}
    /\ Local(t, AwaitInitialized([IdleTask EXCEPT !.cmds = cmds]))

\* variant: the dispatcher kills the running process without asking
GateKillsUnasked(t) ==
    LET r == task[t] IN
    /\ r.pc = "gate"
    /\ Step(t, [r EXCEPT !.pc = "save"])
    /\ procs' = KillCurrentProcess(procs)
    /\ currentProcess' = NoProc
    /\ lastEvent' = NoEvent
    /\ UNCHANGED <<spawned, termOpen, inputBuffer, typed, venvExists, interpreterSet,
                   hasWorkspace, windows>>

\* robotpyCommands: the running-process check, and promptUserToKillCurrentProcess
\* up to its prompt
Gate(t) ==
    LET r == task[t] IN
    /\ r.pc = "gate"
    /\ Local(t, IF currentProcess # NoProc THEN [r EXCEPT !.pc = "killPrompt"]
                ELSE [r EXCEPT !.pc = "save"])

\* variant: a declined cancel offer lets the command go on to its save
AnswerKillPromptDeclineProceeds(t, yes) ==
    LET r == task[t] IN
    /\ Quiescent
    /\ r.pc = "killPrompt"
    /\ Step(t, [r EXCEPT !.pc = "save"])
    /\ procs' = IF yes THEN KillCurrentProcess(procs) ELSE procs
    /\ currentProcess' = IF yes THEN NoProc ELSE currentProcess
    /\ lastEvent' = [type |-> IF yes THEN "cancel accepted" ELSE "cancel declined",
                     pid |-> currentProcess, owner |-> t,
                     code |-> Null, signal |-> NoSignal,
                     data |-> <<>>, echo |-> <<>>, version |-> <<>>,
                     dropped |-> FALSE]
    /\ UNCHANGED <<spawned, termOpen, inputBuffer, typed, venvExists, interpreterSet,
                   hasWorkspace, windows>>

\* the user answers the dispatcher's "Would you like to cancel it?" prompt
AnswerKillPrompt(t, yes) ==
    LET r == task[t] IN
    /\ Quiescent
    /\ r.pc = "killPrompt"
    /\ Step(t, IF yes THEN [r EXCEPT !.pc = "save"] ELSE Settled("resolved"))
    /\ procs' = IF yes THEN KillCurrentProcess(procs) ELSE procs
    /\ currentProcess' = IF yes THEN NoProc ELSE currentProcess
    /\ lastEvent' = [type |-> IF yes THEN "cancel accepted" ELSE "cancel declined",
                     pid |-> currentProcess, owner |-> t,
                     code |-> Null, signal |-> NoSignal,
                     data |-> <<>>, echo |-> <<>>, version |-> <<>>,
                     dropped |-> FALSE]
    /\ UNCHANGED <<spawned, termOpen, inputBuffer, typed, venvExists, interpreterSet,
                   hasWorkspace, windows>>

\* saveCurrentFile(): false without an active editor, else document.save()
SaveCurrentFile(t, editor) ==
    LET r == task[t] IN
    /\ r.pc = "save"
    /\ Local(t, IF editor THEN [r EXCEPT !.pc = "saving"]
                ELSE [r EXCEPT !.pc = "saved", !.saveOk = FALSE])

\* document.save() settled
SaveDone(t, ok) ==
    LET r == task[t] IN
    /\ Quiescent
    /\ r.pc = "saving"
    /\ Local(t, [r EXCEPT !.pc = "saved", !.saveOk = ok])

\* robotpyCommands after saveCurrentFile: warn and return when it was false,
\* else ensureRobotPyReady up to the read of the project descriptor
AfterSave(t) ==
    LET r == task[t] IN
    /\ r.pc = "saved"
    /\ Local(t, IF ~r.saveOk THEN Settled("resolved")
                ELSE IF ~hasWorkspace THEN Settled("resolved")
                ELSE [r EXCEPT !.pc = "readFile"])

(***************************************************************************)
(* Specification                                                           *)
(***************************************************************************)
CloseEvents ==
    {<<c, NoSignal>> : c \in ExitCodes} \cup {<<Null, s>> : s \in Signals}

\* what the streams of process p hold when it closes with this code: only a
\* successful `--version` run is read
OutputsOf(p, code) ==
    IF procs[p].kind \in VersionProbePcs /\ code = 0
    THEN ProbeOutputs ELSE {<< <<>>, <<>> >>}

\* a `-m venv` run exits with code 0 only after it has written the directory
ExitPossible(p, code) ==
    (procs[p].kind = "createVenv" /\ code = 0) => procs[p].made

\* the steps of one call chain that both entry points share
ChainStep(t) ==
    \/ ExecFancy(t)
    \/ \E content \in {"marker", "other", "unreadable"} : ReadFileDone(t, content)
    \/ ResumeFindPython(t)
    \/ ResumeVenvModule(t)
    \/ ResumeRobotpyImport(t)
    \/ \E answer \in {"allowed", "restricted", "error"} : PolicyDone(t, answer)
    \/ AfterCheckEnvironment(t)
    \/ EnsureVenv(t)
    \/ \E yes \in BOOLEAN : AnswerVenvPrompt(t, yes)
    \/ ResumeCreateVenv(t)
    \/ \E ok \in BOOLEAN : ConfigUpdateDone(t, ok)
    \/ ResumeInstall(t)
    \/ AfterEnsureVenv(t)
    \/ ResumeSubcommand(t)

\* the steps of robotpyCommands before environment reconciliation
CommandStep(t) ==
    \/ Gate(t)
    \/ \E editor \in BOOLEAN : SaveCurrentFile(t, editor)
    \/ \E ok \in BOOLEAN : SaveDone(t, ok)
    \/ AfterSave(t)

\* the run is explored for one more failed spawn: a failed spawn counts
\* against the budget once more (against MaxCharged in a run that does not
\* count its spawns)
Affordable ==
    IF Counted THEN spawned + charged < budget
    ELSE charged < MaxCharged

\* the run is explored for one more event handled before a 'close' that is
\* still to come: such an event counts against the budget once more
Unhurried == DOMAIN errored = {} \/ Affordable

\* subprocess events and terminal events
World ==
    \/ \E p \in DOMAIN procs :
         \/ \E ev \in CloseEvents : \E out \in OutputsOf(p, ev[1]) :
              Unhurried /\ ExitPossible(p, ev[1]) /\ ProcClose(p, ev[1], ev[2], out[1], out[2])
         \/ \E errno \in SpawnErrnos : Affordable /\ ProcError(p, errno)
         \/ ChildMakesVenv(p)
    \/ \E p \in DOMAIN errored : ProcErrorClose(p)
    \/ Unhurried /\ HandleCtrlC
    \/ Unhurried /\ TerminalClose

\* Activation followed by invocations of one command at a time: the open
\* sequence and one robotpyCommands call chain.  No call chain ever finds the
\* slot occupied here, so no cancel prompt is raised.
Next ==
    \/ \E t \in {Open, "cmdA"} : ChainStep(t)
    \/ OpenStart(Open)
    \/ \E yes \in BOOLEAN : Unhurried /\ AnswerSyncPrompt(Open, yes)
    \/ \E cmds \in InvokedLists : Unhurried /\ InvokeCommand("cmdA", cmds)
    \/ CommandStep("cmdA")
    \/ World

Spec == Init /\ [][Next]_vars

\* Two robotpyCommands call chains, each invoked once, at any times after the
\* open sequence has settled, on a Windows host (where checkEnvironment also
\* queries the execution policy) in a project that has a venv directory
\* (which an accepted recreation removes).
InitTwo ==
    /\ hasWorkspace = TRUE
    /\ windows = TRUE
    /\ venvExists = TRUE
    /\ task = [t \in Tasks |-> IF t = Open THEN Settled("resolved") ELSE IdleTask]
    /\ procs = << >>
    /\ errored = << >>
    /\ charged = 0
    /\ spawned = 0
    /\ budget = MaxSpawnsTwo
    /\ currentProcess = NoProc
    /\ initialized = TRUE
    /\ termOpen = TRUE
    /\ inputBuffer = <<>>
    /\ typed = <<>>
    /\ interpreterSet = FALSE
    /\ lastEvent = NoEvent
    /\ mark = [u \in Commands |-> "none"]

NextTwo ==
    \/ \E t \in Commands :
         \/ ChainStep(t)
         \/ CommandStep(t)
         \/ Unhurried /\ task[t].pc = "idle" /\ InvokeCommand(t, OpenSyncList)
         \/ \E yes \in BOOLEAN : Unhurried /\ AnswerExecPrompt(t, yes)
         \/ \E yes \in BOOLEAN : Unhurried /\ AnswerKillPrompt(t, yes)
    \/ World

SpecTwo == InitTwo /\ [][NextTwo]_vars

\* A terminal session: a robotpyCommands call chain is about to run its
\* subcommands while the user types into the RobotPy terminal.  Processes are
\* counted from this point on.

ActivatePosix      == BinDir \o <<"/">> \o Activate
ActivateBat        == <<" ">> \o ScriptsDir \o <<"\\">> \o Activate \o BatSuffix \o <<"\f", CR>>
ActivatePs1        == <<"&", " ">> \o ScriptsDir \o <<"/">> \o Activate \o Ps1Suffix \o <<" ", CR, LF>>

\* the chunks the terminal is given
InputChunks ==
    { <<"a", "b", "c">>, <<BS>>, <<DEL>>, <<CR>>, <<LF>>, <<ETX>>,
      ActivatePosix, ActivateBat, ActivatePs1 }

InitTerm ==
    /\ hasWorkspace = TRUE
    /\ windows = FALSE
    /\ venvExists = TRUE
    /\ task = [t \in Tasks |->
                 IF t = Open THEN Settled("resolved")
                 ELSE IF t = "cmdA"
                 THEN [IdleTask EXCEPT !.pc = "subcmd", !.ex = "call", !.k = 1,
                                       !.cmds = OpenSyncList, !.saveOk = TRUE,
                                       !.venvOk = TRUE]
                 ELSE IdleTask]
    /\ procs = << >>
    /\ errored = << >>
    /\ charged = 0
    /\ spawned = 0
    /\ budget = MaxSpawnsTerm
    /\ currentProcess = NoProc
    /\ initialized = TRUE
    /\ termOpen = TRUE
    /\ inputBuffer = <<>>
    /\ typed = <<>>
    /\ interpreterSet = FALSE
    /\ lastEvent = NoEvent
    /\ mark = [u \in Commands |-> IF u = "cmdA" THEN "stepped" ELSE "none"]

\* the line and the process's input stay within the bounds
TypingBounded(data) ==
    /\ \/ IsActivation(data) \/ data = <<ETX>> \/ IsEnter(data)
       \/ Len(typed) < MaxTyped
    /\ (IsEnter(data) /\ currentProcess \in DOMAIN procs)
         => Len(procs[currentProcess].stdin) < MaxLines

NextTerm ==
    \/ \E data \in InputChunks : Unhurried /\ TypingBounded(data) /\ HandleInput(data)
    \/ \E p \in DOMAIN procs :
         \/ \E ev \in CloseEvents : \E out \in OutputsOf(p, ev[1]) :
              Unhurried /\ ProcClose(p, ev[1], ev[2], out[1], out[2])
         \/ \E errno \in SpawnErrnos : Affordable /\ ProcError(p, errno)
    \/ \E p \in DOMAIN errored : ProcErrorClose(p)
    \/ ExecFancy("cmdA")
    \/ ResumeSubcommand("cmdA")

SpecTerm == InitTerm /\ [][NextTerm]_vars

\* The version probe as a function of what the candidate printed: the first
\* candidate of either findPythonCommand call has exited with code 0.
DigitChar(d) == CHOOSE c \in Digits : DigitVal(c) = d

\* the decimal numeral of n < 100
DigitsOf(n) ==
    IF n < 10 THEN <<DigitChar(n)>>
    ELSE <<DigitChar(n \div 10), DigitChar(n % 10)>>

\* the white space between "Python" and the version: a space, or a form feed
\* and a no-break space
Separators == { <<" ">>, <<"\f", " ">> }

\* what `python --version` prints for version major.minor.1
VersionText(major, minor, sep) ==
    <<"P", "y", "t", "h", "o", "n">> \o sep \o DigitsOf(major) \o <<".">>
        \o DigitsOf(minor) \o <<".", "1">>

\* the texts that report version major.minor
VersionTexts(major, minor) == {VersionText(major, minor, sep) : sep \in Separators}

\* text without a version, such as a launcher's warning
NoiseText == <<"w", "a", "r", "n">>

\* <<stdout, stderr>> of the run: a version on at most one stream
ProbeStreams ==
    { <<VersionText(v[1], v[2], sep), o>> :
        v \in (0..MaxMajor) \X (0..MaxMinor), sep \in Separators,
        o \in {<<>>, NoiseText} }
    \cup
    { <<o, VersionText(v[1], v[2], sep)>> :
        v \in (0..MaxMajor) \X (0..MaxMinor), sep \in Separators,
        o \in {<<>>, NoiseText} }
    \cup { << <<>>, <<>> >>, <<NoiseText, <<>>>> }

InitProbe ==
    /\ hasWorkspace = TRUE
    /\ windows \in BOOLEAN
    /\ venvExists = TRUE
    /\ \E pc \in VersionProbePcs : \E out \in ProbeStreams :
         /\ task = [t \in Tasks |->
                      IF t = Open
                      THEN [IdleTask EXCEPT
                              !.pc = pc, !.ex = "ok", !.i = 1,
                              !.stdout = out[1], !.stderr = out[2],
                              !.checks.hasRobotPyProjectFile = TRUE,
                              !.checks.hasVenvFolder = (pc = "venvProbe")]
                      ELSE IdleTask]
         /\ spawned = IF pc = "sysProbe" THEN 1 ELSE NumSystemCandidates + 1
    /\ procs = << >>
    /\ errored = << >>
    /\ charged = 0
    /\ budget = MaxSpawns
    /\ currentProcess = NoProc
    /\ initialized = FALSE
    /\ termOpen = TRUE
    /\ inputBuffer = <<>>
    /\ typed = <<>>
    /\ interpreterSet = FALSE
    /\ lastEvent = NoEvent
    /\ mark = [u \in Commands |-> "none"]

NextProbe == ResumeFindPython(Open)

SpecProbe == InitProbe /\ [][NextProbe]_vars

\* Output of a run as a function of the chunks its process writes: a silent
\* probe or a subcommand is about to be run.
MaxChunks == 2

OutputChunks ==
    { <<"a">>, <<"\n">>, <<"a", "\r">>, <<"\n", "b">>, <<"\r", "\n">>,
      <<"a", "\n">> }

InitOutput ==
    /\ hasWorkspace = TRUE
    /\ windows = FALSE
    /\ venvExists = TRUE
    /\ \E pc \in {"sysProbe", "subcmd"} :
         task = [t \in Tasks |->
                   IF t = Open
                   THEN IF pc = "sysProbe"
                        THEN [IdleTask EXCEPT
                                !.pc = pc, !.ex = "call", !.i = 1,
                                !.checks.hasRobotPyProjectFile = TRUE]
                        ELSE Settled("resolved")
                   ELSE IF t = "cmdA" /\ pc = "subcmd"
                   THEN [IdleTask EXCEPT !.pc = pc, !.ex = "call", !.k = 1,
                                         !.cmds = OpenSyncList, !.saveOk = TRUE,
                                         !.venvOk = TRUE]
                   ELSE IdleTask]
    /\ procs = << >>
    /\ errored = << >>
    /\ charged = 0
    /\ spawned = 0
    /\ budget = MaxSpawnsTerm
    /\ currentProcess = NoProc
    /\ initialized = (task[Open].pc = "done")
    /\ termOpen = FALSE
    /\ inputBuffer = <<>>
    /\ typed = <<>>
    /\ interpreterSet = FALSE
    /\ lastEvent = NoEvent
    /\ mark = [u \in Commands |-> "none"]

NextOutput ==
    \/ \E t \in {Open, "cmdA"} : ExecFancy(t)
    \/ \E p \in DOMAIN procs : \E stream \in {"stdout", "stderr"} :
         \E chunk \in OutputChunks :
           /\ Len(procs[p].received) < MaxChunks
           /\ ProcData(p, stream, chunk)
    \/ \E p \in DOMAIN procs : \E ev \in CloseEvents :
         ProcClose(p, ev[1], ev[2], procs[p].stdout, procs[p].stderr)

SpecOutput == InitOutput /\ [][NextOutput]_vars

\* Activation with a command invoked at any time, up to the moment the
\* command gets past `await extensionInitialized`.  The open sequence spawns
\* at most one process per locator candidate, module check, creation, install
\* and sync subcommand, so the run needs no cap on its spawns and does not
\* count them; it is explored for MaxCharged failed spawns and events handled
\* ahead of a failed child's 'close'.
InitLive ==
    /\ hasWorkspace \in BOOLEAN
    /\ windows \in BOOLEAN
    /\ venvExists \in BOOLEAN
    /\ task = [t \in Tasks |-> IF t = Open THEN [IdleTask EXCEPT !.pc = "start"]
                                ELSE IdleTask]
    /\ procs = << >>
    /\ errored = << >>
    /\ charged = 0
    /\ spawned = 0
    /\ budget = 0
    /\ currentProcess = NoProc
    /\ initialized = FALSE
    /\ termOpen = FALSE
    /\ inputBuffer = <<>>
    /\ typed = <<>>
    /\ interpreterSet = FALSE
    /\ lastEvent = NoEvent
    /\ mark = [u \in Commands |-> "none"]

\* the steps of the open sequence, the answers to its prompts, the completions
\* of its awaited operations and the exits of its processes
OpenProgress ==
    \/ OpenStart(Open)
    \/ ChainStep(Open)
    \/ \E yes \in BOOLEAN : Unhurried /\ AnswerSyncPrompt(Open, yes)
    \/ \E p \in DOMAIN procs :
         \/ \E ev \in CloseEvents : \E out \in OutputsOf(p, ev[1]) :
              Unhurried /\ ExitPossible(p, ev[1]) /\ ProcClose(p, ev[1], ev[2], out[1], out[2])
         \/ \E errno \in SpawnErrnos : Affordable /\ ProcError(p, errno)
         \/ ChildMakesVenv(p)
    \/ \E p \in DOMAIN errored : ProcErrorClose(p)

\* An interrupt or a closed terminal reaches the open sequence as the exit of
\* its process by a signal, which is among the close events.  The command's
\* argument lists are not read before it gets past the wait, so one list
\* stands for all.
NextLive ==
    \/ OpenProgress
    \/ Unhurried /\ InvokeCommand("cmdA", <<"sim">>)

\* Every prompt is eventually answered, every awaited operation eventually
\* completes and every spawned process eventually exits; microtasks run.
SpecLive == InitLive /\ [][NextLive]_vars /\ WF_vars(OpenProgress)

(***************************************************************************)
(* Properties                                                              *)
(***************************************************************************)
\* the processes spawned by task t in this step
SpawnedBy(t) == {p \in DOMAIN procs' \ DOMAIN procs : procs'[p].owner = t}

\* C1: at most one supervised subprocess is alive (spawned and not yet
\* closed or errored) at any time.
AtMostOneAlive == Cardinality(DOMAIN procs) <= 1

\* C1, counting only processes that nothing has killed
AtMostOneUnkilled == Cardinality({p \in DOMAIN procs : ~procs[p].killed}) <= 1

\* C2: the slot is occupied exactly while a spawned process has not yet
\* emitted close or error, and then it refers to that process.
SlotAccurate ==
    /\ (currentProcess # NoProc) <=> (DOMAIN procs # {})
    /\ currentProcess # NoProc => DOMAIN procs = {currentProcess}

\* C2, for processes that nothing has killed: such a process is in the slot
UnkilledIsInSlot ==
    \A p \in DOMAIN procs : ~procs[p].killed => currentProcess = p

\* C3: no robotpyCommands call gets past `await extensionInitialized` (to its
\* running-process check, save, probe, reconciliation or subcommands) before
\* the open sequence has settled.
InitBarrier ==
    \A t \in Commands :
        task[t].pc \notin {"idle", "awaitInit"} => task[Open].pc = "done"

\* a command was invoked while the open sequence had a probe running, and waits
InitBarrierWitness ==
    /\ task["cmdA"].pc = "awaitInit"
    /\ task[Open].ex = "run"
    /\ task[Open].pid \in DOMAIN procs

\* C4: the spawns of two command sequences never interleave: no sequence spawns
\* a process after the other sequence spawned one in between its own spawns.
NoInterleaving ==
    [][\A t \in Commands : SpawnedBy(t) # {} => mark[t] # "overlapped"]_vars

\* C5: when the user declines the cancel prompt of a non-silent run, the run is
\* rejected with the "another process was running" error, nothing is spawned,
\* and no process is killed or removed from the slot.
DeclineLeavesOriginal ==
    [][\A t \in Tasks :
         (task[t].ex = "prompt" /\ lastEvent'.type = "declined"
            /\ lastEvent'.owner = t)
         => /\ task'[t].ex = "fail"
            /\ task'[t].err = NopeErr
            /\ procs' = procs
            /\ spawned' = spawned
            /\ currentProcess' = currentProcess]_vars

\* the user declined while the original process was still in the slot
DeclineWitness ==
    /\ lastEvent.type = "declined"
    /\ task[lastEvent.owner].ex = "fail"
    /\ currentProcess # NoProc
    /\ currentProcess \in DOMAIN procs
    /\ ~procs[currentProcess].killed
    /\ procs[currentProcess].owner # lastEvent.owner

\* C6: when the user accepts the cancel prompt of a non-silent run, whatever
\* happened to the old process meanwhile, the process in the slot (if any) is
\* killed and the new process is spawned and becomes the RunningProcess.
AcceptKillsAndSpawns ==
    [][\A t \in Tasks :
         (task[t].ex = "prompt" /\ lastEvent'.type = "accepted"
            /\ lastEvent'.owner = t)
         => /\ task'[t].ex = "run"
            /\ SpawnedBy(t) = {task'[t].pid}
            /\ currentProcess' = task'[t].pid
            /\ \A p \in DOMAIN procs :
                 p = currentProcess => (p \in DOMAIN procs' /\ procs'[p].killed)]_vars

\* C7: a silent run requested while the slot is occupied is rejected at once:
\* no prompt, nothing killed, nothing spawned, the slot unchanged.
SilentFailsWhenBusy ==
    [][\A t \in Tasks :
         (task[t].ex = "call" /\ IsSilent(task[t].pc) /\ currentProcess # NoProc)
         => /\ task'[t].ex = "fail"
            /\ task'[t].err = NopeErr
            /\ procs' = procs
            /\ spawned' = spawned
            /\ currentProcess' = currentProcess]_vars

\* a silent probe has just been rejected because another call chain's process
\* holds the slot
SilentFailsWitness ==
    \E t \in Tasks :
        /\ task[t].ex = "fail"
        /\ task[t].err = NopeErr
        /\ IsSilent(task[t].pc)
        /\ currentProcess \in DOMAIN procs
        /\ procs[currentProcess].owner # t
        /\ ~procs[currentProcess].killed

\* C8: execFancy resolves exactly when its process closes with exit code 0; a
\* close with code N # 0 rejects with "exited with code N", a close with a
\* null code and signal S rejects with "killed with signal S", and an 'error'
\* event rejects with that error.
RunOutcome ==
    /\ lastEvent.type = "close" =>
         LET r == task[lastEvent.owner] IN
         /\ lastEvent.code = 0 => r.ex = "ok"
         /\ lastEvent.code \notin {0, Null} =>
              /\ r.ex = "fail"
              /\ r.err.kind = "Process exited with code"
              /\ r.err.code = lastEvent.code
         /\ lastEvent.code = Null =>
              /\ r.ex = "fail"
              /\ r.err.kind = "Process was killed with signal"
              /\ r.err.signal = lastEvent.signal
    /\ lastEvent.type = "error" =>
         /\ task[lastEvent.owner].ex = "fail"
         /\ task[lastEvent.owner].err = SpawnErr
    /\ \A t \in Tasks :
         task[t].ex = "ok" =>
            /\ lastEvent.type = "close"
            /\ lastEvent.owner = t
            /\ lastEvent.code = 0

\* a process that had been killed has just closed with a null code and a signal
RunOutcomeWitness ==
    /\ lastEvent.type = "close"
    /\ lastEvent.code = Null
    /\ lastEvent.signal = "SIGTERM"
    /\ task[lastEvent.owner].pc = "subcmd"
    /\ task[lastEvent.owner].ex = "fail"

\* C9: within one sequence, subcommand k+1 is spawned only after subcommands
\* 1..k each closed with exit code 0; after a subcommand failed (non-zero exit,
\* killed, spawn error, rejected request) no later one is spawned.
SubcommandsInOrder ==
    [][\A t \in Tasks : \A p \in SpawnedBy(t) :
         procs'[p].kind = "subcmd" =>
            /\ Len(task[t].subLog) = procs'[p].idx - 1
            /\ \A j \in 1..Len(task[t].subLog) : task[t].subLog[j] = "ok"]_vars

\* the second subcommand of a sequence is running
SubcommandsWitness ==
    \E p \in DOMAIN procs :
        /\ procs[p].kind = "subcmd"
        /\ procs[p].idx = 2
        /\ task[procs[p].owner].subLog = <<"ok">>

\* C10: when saveCurrentFile returns false the command still goes on to
\* environment reconciliation (with a workspace open: to the probe).
SaveFailureProceeds ==
    [][\A t \in Commands :
         (task[t].pc = "saved" /\ ~task[t].saveOk /\ hasWorkspace)
         => task'[t].pc = "readFile"]_vars

\* C11: when a command is invoked while a process is running and the user
\* declines the dispatcher's cancel offer, the command ends there: nothing is
\* killed, the slot is unchanged, and the command does no save, probe,
\* reconciliation or spawn (a settled call chain takes no step until the
\* command is invoked again).
GateDeclineAborts ==
    [][\A t \in Commands :
         /\ (task[t].pc = "killPrompt" /\ lastEvent'.type = "cancel declined"
                /\ lastEvent'.owner = t)
            => /\ task'[t] = Settled("resolved")
               /\ procs' = procs
               /\ currentProcess' = currentProcess
               /\ spawned' = spawned
               /\ venvExists' = venvExists
               /\ interpreterSet' = interpreterSet
         /\ task[t].pc = "done" => task'[t].pc \in {"done", "awaitInit", "gate"}]_vars

\* the offer was declined while the running process of the other command was
\* in the slot; it is still there, and the new command has settled
GateDeclineWitness ==
    /\ lastEvent.type = "cancel declined"
    /\ task[lastEvent.owner] = Settled("resolved")
    /\ currentProcess = lastEvent.pid
    /\ currentProcess \in DOMAIN procs
    /\ ~procs[currentProcess].killed
    /\ procs[currentProcess].owner # lastEvent.owner

\* C12: every report checkEnvironment returns satisfies the four implications
\* its assertions test, whatever the probes' outcomes were (probes rejected
\* because another process was running included).
ReportInvariants ==
    \A t \in Tasks :
        task[t].pc = "checked" =>
            LET c == task[t].checks IN
            /\ c.isSystemPythonNewEnough => c.hasSystemPython
            /\ c.hasSystemPythonVenvModule =>
                  (c.hasSystemPython /\ c.isSystemPythonNewEnough)
            /\ c.isVenvPythonNewEnough => c.hasVenvFolder
            /\ c.isVenvReady => (c.hasVenvFolder /\ c.isVenvPythonNewEnough)

\* a report in which every antecedent of the four implications is true
ReportWitness ==
    \E t \in Tasks :
        /\ task[t].pc = "checked"
        /\ task[t].checks.hasSystemPythonVenvModule
        /\ task[t].checks.isVenvReady

\* a report made of probes that were all rejected because the other command's
\* process held the slot
ReportBusyWitness ==
    \E t \in Tasks :
        /\ task[t].pc = "checked"
        /\ ~task[t].checks.hasSystemPython
        /\ task[t].checks.hasVenvFolder
        /\ currentProcess \in DOMAIN procs
        /\ procs[currentProcess].owner # t

\* C13: given a report with isVenvReady, ensureVenv returns true at once: no
\* prompt, no subprocess, no deletion of the venv directory, no write of the
\* interpreter setting (at most the execution-policy warning).
ReadyVenvReturnsAtOnce ==
    [][\A t \in Tasks :
         (task[t].pc = "ensure" /\ task[t].checks.isVenvReady /\ task'[t] # task[t])
         => /\ task'[t].pc = "ensured"
            /\ task'[t].venvOk
            /\ task'[t].log \in {<<>>, <<"warn:policy">>}
            /\ procs' = procs
            /\ spawned' = spawned
            /\ currentProcess' = currentProcess
            /\ venvExists' = venvExists
            /\ interpreterSet' = interpreterSet]_vars

\* ensureVenv has just returned true without having asked or run anything
ReadyVenvWitness ==
    \E t \in Tasks :
        /\ task[t].pc = "ensured"
        /\ task[t].venvOk
        /\ task[t].log \in {<<>>, <<"warn:policy">>}

\* the reconciler's log without the advisory warning
LogBody(t) == SelectSeq(task[t].log, LAMBDA e : e # "warn:policy")

Count(l, e) == Cardinality({j \in DOMAIN l : l[j] = e})

\* some a stands before some b in l
Before(l, a, b) == \E j, k \in DOMAIN l : j < k /\ l[j] = a /\ l[k] = b

\* the report had no venv folder and an adequate system interpreter, and the
\* user accepted the creation prompt
AcceptedCreate(l) == Len(l) >= 2 /\ l[1] = "ask:create" /\ l[2] = "yes"

\* C14, as stated: after an accepted creation prompt the reconciler has run
\* venv creation exactly once, then the install exactly once, and returns true.
CreateThenInstallAlways ==
    \A t \in Tasks :
        (task[t].pc = "ensured" /\ AcceptedCreate(LogBody(t)))
        => /\ Count(LogBody(t), "createVenv") = 1
           /\ Count(LogBody(t), "install") = 1
           /\ Before(LogBody(t), "created", "install")
           /\ task[t].venvOk

\* C14, amended: after an accepted creation prompt the reconciler runs venv
\* creation at most once and the install at most once, the install only
\* after creation closed with exit code 0 and the interpreter setting was
\* written, and it returns true exactly when the install closed with exit
\* code 0 (so, when both succeed: creation once, then install once, true).
CreateThenInstall ==
    \A t \in Tasks :
        AcceptedCreate(LogBody(t))
        => LET l == LogBody(t) IN
           /\ Count(l, "createVenv") <= 1
           /\ Count(l, "install") <= 1
           /\ Count(l, "created") = 1 => Before(l, "createVenv", "created")
           /\ Count(l, "install") = 1 =>
                 /\ Before(l, "created", "configured")
                 /\ Before(l, "configured", "install")
           /\ task[t].pc = "ensured" =>
                 /\ task[t].venvOk <=> l[Len(l)] = "installed"
                 /\ task[t].venvOk =>
                       /\ Count(l, "createVenv") = 1
                       /\ Count(l, "install") = 1
                       /\ Before(l, "install", "installed")

\* creation and install both ran once, in this order, and ensureVenv returns
\* true
CreateThenInstallWitness ==
    \E t \in Tasks :
        /\ task[t].pc = "ensured"
        /\ task[t].venvOk
        /\ LogBody(t) = <<"ask:create", "yes", "createVenv", "created",
                          "configured", "install", "installed">>

\* the report of the tear-down branch: a venv folder whose interpreter is too old
TearDownReport(c) == c.hasVenvFolder /\ ~c.isVenvPythonNewEnough

\* C15: the venv directory is deleted only by a reconciler in the tear-down
\* branch (venv folder with an inadequate interpreter), after the
\* system-interpreter check passed and the user accepted the prompt, and before
\* that reconciler invokes creation; when the user declines, or the system
\* interpreter is inadequate, the reconciler returns without deleting and
\* without spawning.
DeleteOnlyOnAcceptedTearDown ==
    [][/\ \A t \in Tasks :
            (\/ Count(task'[t].log, "rm:venv") > Count(task[t].log, "rm:venv")
             \/ (venvExists /\ ~venvExists' /\ task'[t] # task[t]))
            => /\ task[t].pc = "replacePrompt"
               /\ TearDownReport(task[t].checks)
               /\ CheckSystemPython(task[t].checks)
               /\ Count(task[t].log, "ask:replace") = 1
               /\ Count(task'[t].log, "yes") = 1
               /\ Count(task'[t].log, "createVenv") = 0
               /\ task'[t].pc = "createVenv"
               /\ task'[t].ex = "call"
       /\ (venvExists /\ ~venvExists') => \E t \in Tasks : task'[t] # task[t]
       /\ \A t \in Tasks :
            (task[t].pc = "replacePrompt" /\ task'[t].pc = "ensured")
            => /\ ~task'[t].venvOk
               /\ venvExists' = venvExists
               /\ spawned' = spawned
               /\ procs' = procs
               /\ Count(task'[t].log, "rm:venv") = 0
               /\ Count(task'[t].log, "createVenv") = 0
               /\ Count(task'[t].log, "install") = 0
       /\ \A t \in Tasks :
            (task[t].pc = "ensure" /\ TearDownReport(task[t].checks)
               /\ ~CheckSystemPython(task[t].checks) /\ task'[t] # task[t])
            => /\ task'[t].pc = "ensured"
               /\ ~task'[t].venvOk
               /\ venvExists' = venvExists
               /\ spawned' = spawned
               /\ procs' = procs
               /\ Count(task'[t].log, "rm:venv") = 0]_vars

\* the venv directory was deleted on an accepted tear-down and creation is
\* now running
TearDownWitness ==
    \E t \in Tasks :
        /\ task[t].pc = "createVenv"
        /\ task[t].ex = "run"
        /\ LogBody(t) = <<"ask:replace", "yes", "rm:venv", "createVenv">>
        /\ ~venvExists

\* the tear-down was declined: the venv directory is still there
TearDownDeclinedWitness ==
    \E t \in Tasks :
        /\ task[t].pc = "ensured"
        /\ LogBody(t) = <<"ask:replace", "no">>
        /\ venvExists

\* record r with the other value of winExecutionPolicyOk in its report
FlipPolicy(r) == [r EXCEPT !.checks.winExecutionPolicyOk = ~@]

\* record r without the policy flag and without the policy warning
StripPolicy(r) ==
    [r EXCEPT !.checks.winExecutionPolicyOk = TRUE,
              !.log = SelectSeq(@, LAMBDA e : e # "warn:policy")]

\* C16: the execution-policy flag is advisory.  At every point of a
\* reconciliation, the reconciler's next step from the same state with the
\* other value of winExecutionPolicyOk, under the same answer or subprocess
\* outcome, asks the same prompt, deletes the same, requests the same run
\* and returns the same result; the two differ in the warning only.
PolicyIsAdvisory ==
    \A t \in Tasks :
        LET r == task[t]
            f == FlipPolicy(r) IN
        /\ r.pc = "ensure" =>
              StripPolicy(EnsureVenvFrom(f)) = StripPolicy(EnsureVenvFrom(r))
        /\ r.pc \in {"createPrompt", "replacePrompt"} =>
              \A yes \in BOOLEAN :
                 /\ StripPolicy(VenvPromptAnswered(f, yes))
                       = StripPolicy(VenvPromptAnswered(r, yes))
                 /\ DeletesVenv(f, yes) = DeletesVenv(r, yes)
        /\ (r.pc = "createVenv" /\ r.ex \in {"ok", "fail"}) =>
              StripPolicy(CreateVenvResumed(f)) = StripPolicy(CreateVenvResumed(r))
        /\ r.pc = "setInterp" =>
              \A ok \in BOOLEAN :
                 StripPolicy(ConfigUpdated(f, ok)) = StripPolicy(ConfigUpdated(r, ok))
        /\ (r.pc = "install" /\ r.ex \in {"ok", "fail"}) =>
              StripPolicy(InstallResumed(f)) = StripPolicy(InstallResumed(r))
        /\ (r.pc \in ReconcilerRunPcs /\ r.ex \in {"call", "prompt"}) =>
              /\ NewProc(t, f) = NewProc(t, r)
              /\ \A e \in {"ask:cancel", "cancel:yes", "cancel:no", r.pc} :
                    StripPolicy(LogIfReconciling(f, e))
                      = StripPolicy(LogIfReconciling(r, e))

\* the policy check failed and the reconciler nevertheless created the venv,
\* installed the package and returned true
PolicyWitness ==
    \E t \in Tasks :
        /\ task[t].pc = "ensured"
        /\ task[t].venvOk
        /\ task[t].log = <<"warn:policy", "ask:create", "yes", "createVenv",
                           "created", "configured", "install", "installed">>

\* positions inside ensureVenv
ReconcilerPcs == {"ensure", "createPrompt", "replacePrompt", "createVenv",
                  "setInterp", "install"}

\* ensureVenv never throws: a call chain leaves the reconciler only by its
\* return
ReconcilerReturns ==
    \A t \in Tasks :
        (task[t].pc \in ReconcilerPcs /\ task'[t] # task[t])
        => task'[t].pc \in ReconcilerPcs \cup {"ensured"}

\* what ensureVenv returned after a failed creation or install: the generic
\* error and false, and no install after a failed creation
FailureReported(r) ==
    /\ (Count(r.log, "createVenv") = 1 /\ Count(r.log, "created") = 0) =>
          /\ ~r.venvOk
          /\ r.log[Len(r.log)] = "error:setup failed"
          /\ Count(r.log, "install") = 0
    /\ (Count(r.log, "install") = 1 /\ Count(r.log, "installed") = 0) =>
          /\ ~r.venvOk
          /\ r.log[Len(r.log)] = "error:setup failed"

\* what ensureVenv returned after the create or tear-down prompt was
\* declined: false, without the generic error
VenvPromptDeclineQuiet(r) ==
    Count(r.log, "no") = 1 =>
        (~r.venvOk /\ Count(r.log, "error:setup failed") = 0)

\* what ensureVenv returned after a cancel-the-running-process prompt was
\* declined: false, without the generic error
CancelDeclineQuiet(r) ==
    Count(r.log, "cancel:no") = 1 =>
        (~r.venvOk /\ Count(r.log, "error:setup failed") = 0)

\* C17: the reconciler never throws; a failed creation or install makes it
\* show the generic setup-failed error and return false, with no install
\* after a failed creation; a declined prompt (create, tear-down, or cancel
\* the running process) makes it return false without that error.
ReconcilerFailsSoftly ==
    [][/\ ReconcilerReturns
       /\ \A t \in Tasks :
            task'[t].pc = "ensured" =>
                /\ FailureReported(task'[t])
                /\ VenvPromptDeclineQuiet(task'[t])
                /\ CancelDeclineQuiet(task'[t])]_vars

\* C17 without its clause on the cancel prompt
ReconcilerFailsSoftlyButCancel ==
    [][/\ ReconcilerReturns
       /\ \A t \in Tasks :
            task'[t].pc = "ensured" =>
                /\ FailureReported(task'[t])
                /\ VenvPromptDeclineQuiet(task'[t])]_vars

\* positions of the open sequence up to the end of checkEnvironment
ProbePcs == {"start", "readFile", "sysProbe", "sysVenvMod", "venvProbe",
             "venvRobotpy", "policy", "checked"}

\* C18: on workspace open, a probe that reports no project descriptor ends
\* the open sequence: the reconciler is not entered, so no creation, tear-down
\* or sync prompt is shown; and up to that end no non-silent process is
\* spawned, the venv directory is neither created nor deleted and the
\* interpreter setting is not written.
NoProjectNoReconcile ==
    [][/\ (task[Open].pc = "checked" /\ ~task[Open].checks.hasRobotPyProjectFile
             /\ task'[Open] # task[Open])
          => /\ task'[Open].pc = "done"
             /\ task'[Open].outcome = "resolved"
             /\ procs' = procs
             /\ spawned' = spawned
             /\ currentProcess' = currentProcess
       /\ task[Open].pc \in ProbePcs
          => /\ venvExists' = venvExists
             /\ interpreterSet' = interpreterSet
             /\ \A p \in DOMAIN procs' : procs'[p].silent
             /\ task'[Open].pc \in ProbePcs \cup {"ensure", "done"}]_vars

\* the open sequence ended on a report without project descriptor, in a
\* workspace that has a venv directory and after its probes ran
NoProjectWitness ==
    /\ task[Open].pc = "done"
    /\ task[Open].log = <<"no project file">>
    /\ venvExists
    /\ ~interpreterSet
    /\ spawned >= 2
    /\ task["cmdA"].pc = "idle"

\* C19: when the terminal is closed, the process in the slot at that moment
\* is sent the kill and the slot is emptied, so no process is tracked
\* afterwards.
TerminalCloseKills ==
    [][(termOpen /\ ~termOpen')
       => /\ currentProcess' = NoProc
          /\ currentProcess # NoProc =>
                /\ currentProcess \in DOMAIN procs'
                /\ procs'[currentProcess].killed]_vars

\* the terminal was closed while a process was running: it has been killed and
\* the slot is empty
TerminalCloseWitness ==
    /\ lastEvent.type = "terminal closed"
    /\ ~termOpen
    /\ lastEvent.pid \in DOMAIN procs
    /\ procs[lastEvent.pid].killed
    /\ currentProcess = NoProc

\* the processes that are sent the kill in this step
KilledNow == {p \in DOMAIN procs \cap DOMAIN procs' :
                 ~procs[p].killed /\ procs'[p].killed}

\* C20, as stated: a process is killed only in the step that handles a Ctrl-C
\* or an accepted cancel prompt (execFancy's or the dispatcher's).
KillOnlyByCtrlCOrPrompt ==
    [][\A p \in KilledNow :
         /\ lastEvent'.type \in {"ctrl-c", "accepted", "cancel accepted"}
         /\ lastEvent'.pid = p]_vars

\* C20, amended: a process is killed only in the step that handles a Ctrl-C,
\* the closing of the terminal, or an accepted cancel prompt, and it is the
\* process that is in the slot then.
KillOnlyByUser ==
    [][\A p \in KilledNow :
         /\ lastEvent'.type \in {"ctrl-c", "terminal closed", "accepted",
                                  "cancel accepted"}
         /\ lastEvent'.pid = p
         /\ currentProcess = p]_vars

\* the dispatcher's cancel offer was accepted and the running process of the
\* other command has been killed
KillByUserWitness ==
    /\ lastEvent.type = "cancel accepted"
    /\ lastEvent.pid \in DOMAIN procs
    /\ procs[lastEvent.pid].killed
    /\ procs[lastEvent.pid].owner # lastEvent.owner
    /\ currentProcess = NoProc

\* what a line editor holds after the chunks given: ordinary chunks appended,
\* each backspace removing the last remaining code unit
EditStep(buf, data) ==
    IF data \in {<<BS>>, <<DEL>>}
    THEN IF buf = <<>> THEN buf ELSE SubSeq(buf, 1, Len(buf) - 1)
    ELSE buf \o data

RECURSIVE Edited(_)
Edited(chunks) ==
    IF chunks = <<>> THEN <<>>
    ELSE EditStep(Edited(SubSeq(chunks, 1, Len(chunks) - 1)), chunks[Len(chunks)])

\* this step is handleInput given Enter
EnterStep == lastEvent'.type = "input" /\ lastEvent'.data \in {<<CR>>, <<LF>>}

\* C21: line editing.  The buffer is always the ordinary chunks typed with
\* each backspace (\x08 or \x7f) removing the last remaining code unit, a
\* backspace on an empty buffer changing and echoing nothing; Enter writes
\* that text followed by a newline to the stdin of the process then running,
\* and leaves the buffer empty whether or not a process is running.
LineEditing ==
    [][ /\ inputBuffer' = Edited(typed')
        /\ EnterStep =>
             /\ inputBuffer' = <<>>
             /\ procs' = IF currentProcess \in DOMAIN procs
                         THEN [procs EXCEPT ![currentProcess].stdin =
                                              Append(@, Edited(typed) \o <<LF>>)]
                         ELSE procs
        /\ (lastEvent'.data \in {<<BS>>, <<DEL>>} /\ inputBuffer = <<>>) =>
             /\ inputBuffer' = <<>>
             /\ lastEvent'.echo = <<>> ]_vars

\* "abc", backspace, Enter wrote "ab\n" to the running process
LineEditingWitness ==
    /\ lastEvent.type = "input"
    /\ lastEvent.data \in {<<CR>>, <<LF>>}
    /\ lastEvent.pid \in DOMAIN procs
    /\ procs[lastEvent.pid].stdin = << <<"a", "b", LF>> >>
    /\ inputBuffer = <<>>

\* a backspace arrived when the buffer was empty
BackspaceOnEmptyWitness ==
    /\ lastEvent.data = <<DEL>>
    /\ lastEvent.echo = <<>>
    /\ typed = <<DEL>>

\* sub occurs in s
Contains(s, sub) ==
    \E i \in 0..(Len(s) - Len(sub)) : SubSeq(s, i + 1, i + Len(sub)) = sub

\* the chunks that, trimmed, end in an activation script
ActivationChunks == {c \in InputChunks : MatchesActivate(Trim(c))}

\* no line written to a process holds an activation command
NoActivationForwarded ==
    \A p \in DOMAIN procs : \A j \in 1..Len(procs[p].stdin) :
      \A c \in ActivationChunks : ~Contains(procs[p].stdin[j], Trim(c))

\* C22: a chunk that, trimmed, ends in (Scripts|bin)[/\]activate, with or
\* without .bat or .ps1, is discarded: nothing is echoed, nothing is appended
\* to the line buffer, nothing is written to a process then, and no line
\* written by a later Enter holds it.
ActivationDiscarded ==
    /\ []NoActivationForwarded
    /\ [][ (lastEvent'.type = "input" /\ lastEvent'.data \in ActivationChunks) =>
             /\ lastEvent'.echo = <<>>
             /\ inputBuffer' = <<>>
             /\ procs' = procs ]_vars

\* an activation command wrapped in white space arrived after a line had been
\* written to the running process
ActivationWitness ==
    /\ lastEvent.type = "input"
    /\ lastEvent.data = ActivateBat
    /\ lastEvent.pid \in DOMAIN procs
    /\ procs[lastEvent.pid].stdin # <<>>

\* findPythonCommand's candidate returned a version
CandidateFound(r) ==
    r.ex = "ok" /\ MatchVersion(FirstNonEmpty(r.stdout, r.stderr)) # NoMatch

\* C23: findPythonCommand never throws.  A candidate that failed to run
\* (spawn error, non-zero exit, kill, or rejection because the slot was busy)
\* or printed no version is followed by the next candidate; after the last one
\* the locator returns null: checkEnvironment goes on with "has python" unset
\* and the call chain is not rejected.
LocatorNeverThrows ==
    [][\A t \in Tasks :
         LET r == task[t]
             n == task'[t] IN
         (/\ r.pc \in VersionProbePcs
          /\ r.ex \in {"ok", "fail"}
          /\ n # r
          /\ ~CandidateFound(r))
         => IF r.i < NumCandidates(r.pc)
            THEN n.pc = r.pc /\ n.i = r.i + 1 /\ n.ex = "call"
            ELSE /\ n.pc \in {"venvProbe", "policy", "checked"}
                 /\ n.pc # r.pc
                 /\ n.outcome = "none"
                 /\ ~n.checks.hasVenvPython
                 /\ r.pc = "sysProbe" => ~n.checks.hasSystemPython]_vars

\* both locator calls of a command returned null while the other command's
\* process occupied the slot
LocatorBusyWitness ==
    \E t \in Commands :
        /\ task[t].pc \in {"policy", "checked"}
        /\ task[t].checks.hasVenvFolder
        /\ ~task[t].checks.hasSystemPython
        /\ ~task[t].checks.hasVenvPython
        /\ currentProcess \in DOMAIN procs
        /\ procs[currentProcess].owner # t
        /\ ~procs[currentProcess].killed

\* C24: for a candidate that exited with code 0, a version text
\* "Python <major>.<minor>..." on stdout or on stderr is parsed into
\* <<major, minor>>, whatever the other stream holds.
VersionOnEitherStream ==
    [][\A major \in 0..MaxMajor : \A minor \in 0..MaxMinor :
         LET r == task[Open] IN
         (/\ r.pc \in VersionProbePcs
          /\ r.ex = "ok"
          /\ task'[Open] # r
          /\ \/ r.stdout \in VersionTexts(major, minor)
             \/ r.stderr \in VersionTexts(major, minor))
         => lastEvent'.version = <<major, minor>>]_vars

\* C24, for a version on stdout, or on stderr when stdout is empty
VersionOnFirstNonEmptyStream ==
    [][\A major \in 0..MaxMajor : \A minor \in 0..MaxMinor :
         LET r == task[Open] IN
         (/\ r.pc \in VersionProbePcs
          /\ r.ex = "ok"
          /\ task'[Open] # r
          /\ \/ r.stdout \in VersionTexts(major, minor)
             \/ r.stdout = <<>> /\ r.stderr \in VersionTexts(major, minor))
         => lastEvent'.version = <<major, minor>>]_vars

\* the "new enough" flag the version gate set for the interpreter just located
GateFlag ==
    IF lastEvent.type = "located system"
    THEN task[lastEvent.owner].checks.isSystemPythonNewEnough
    ELSE task[lastEvent.owner].checks.isVenvPythonNewEnough

\* findPythonCommand has just returned a version
Located ==
    /\ lastEvent.type \in {"located system", "located venv"}
    /\ lastEvent.version # NoMatch

\* C28: the version gate, for the system and for the venv interpreter, marks
\* (major, minor) adequate if and only if major >= 3 and minor >= 12.
GateIsComponentWise ==
    Located => (GateFlag <=> (lastEvent.version[1] >= 3 /\ lastEvent.version[2] >= 12))

\* the venv interpreter reported 3.12 and was marked adequate
GateWitness ==
    /\ lastEvent.type = "located venv"
    /\ lastEvent.version = <<3, 12>>
    /\ task[Open].checks.isVenvPythonNewEnough
    /\ task[Open].pc = "venvRobotpy"

\* C29 as stated: any version with a major component above 3 passes the gate.
HigherMajorPasses ==
    (Located /\ lastEvent.version[1] > 3) => GateFlag

\* C29: a version with a major component above 3 passes the gate only if its
\* minor component is at least 12: 4.0 is rejected, 4.12 passes.
HigherMajorNeedsMinor ==
    (Located /\ lastEvent.version[1] > 3) => (GateFlag <=> lastEvent.version[2] >= 12)

\* the system interpreter reported 4.0 and was marked too old
HigherMajorWitness ==
    /\ lastEvent.type = "located system"
    /\ lastEvent.version = <<4, 0>>
    /\ task[Open].checks.hasSystemPython
    /\ ~task[Open].checks.isSystemPythonNewEnough

\* C25: when a project is opened and ensureVenv reports the environment
\* ready, the open sequence goes on to run `project update-robotpy` and then
\* `sync` without asking anything.
SyncRunsUnprompted ==
    [][(/\ task[Open].pc = "ensured"
        /\ task[Open].venvOk
        /\ task'[Open] # task[Open])
       => /\ task'[Open].pc = "subcmd"
          /\ task'[Open].cmds = OpenSyncList
          /\ task'[Open].k = 1]_vars

\* C26: the interpreter setting is written right after every successful venv
\* creation and before the install is started, and is never written in a
\* reconciliation in which no creation succeeded.
ConfigWriteFollowsCreation ==
    /\ [](\A t \in Tasks :
            LET l == task[t].log IN
            /\ task[t].pc = "setInterp" => (l # <<>> /\ l[Len(l)] = "created")
            /\ \A j \in DOMAIN l :
                 /\ l[j] = "created" =>
                      IF j = Len(l) THEN task[t].pc = "setInterp"
                      ELSE l[j + 1] \in {"configured", "error:setup failed"}
                 /\ l[j] = "configured" => (j > 1 /\ l[j - 1] = "created")
                 /\ (l[j] = "install" /\ Count(l, "createVenv") > 0) =>
                      \E k \in 1..(j - 1) : l[k] = "configured")
    /\ [][interpreterSet' # interpreterSet =>
            \E t \in Tasks : /\ task[t].pc = "setInterp"
                             /\ Count(task'[t].log, "configured") = 1]_vars

\* the venv was torn down and recreated, the setting written, and the install
\* is running
ConfigWriteWitness ==
    /\ task[Open].pc = "install"
    /\ task[Open].ex = "run"
    /\ interpreterSet
    /\ LogBody(Open) = <<"ask:replace", "yes", "rm:venv", "createVenv", "created",
                         "configured", "install">>

\* the install-only reconciliation: the install runs and nothing was written
NoConfigWriteWitness ==
    /\ task[Open].pc = "install"
    /\ task[Open].ex = "run"
    /\ ~interpreterSet
    /\ LogBody(Open) = <<"install">>

\* some "yes" stands before position j of l
AcceptedBefore(l, j) == \E k \in 1..(j - 1) : l[k] = "yes"

\* a declined create or tear-down prompt: nothing was spawned and ensureVenv
\* returned false
DeclineSpawnsNothing(t) ==
    LET l == task[t].log IN
    Count(l, "no") = 1 =>
        /\ Count(l, "createVenv") = 0
        /\ Count(l, "install") = 0
        /\ task[t].pc = "ensured"
        /\ ~task[t].venvOk

\* C30 as stated: venv creation, recreation and package install (the
\* install-only case included) are each started only after the user accepted
\* a prompt, and declining spawns nothing.
CorrectiveActionsPrompted ==
    \A t \in Tasks :
        /\ \A j \in DOMAIN task[t].log :
             task[t].log[j] \in {"createVenv", "install"}
                => AcceptedBefore(task[t].log, j)
        /\ DeclineSpawnsNothing(t)

\* C30: venv creation and recreation, and the install that follows them, are
\* started only after the user accepted the create or tear-down prompt, and
\* declining spawns nothing; the install-only case (adequate venv without the
\* package) is started without any prompt.
CreationPromptedInstallOnlyNot ==
    \A t \in Tasks :
        LET l == LogBody(t) IN
        /\ \A j \in DOMAIN l :
             /\ l[j] = "createVenv" => AcceptedBefore(l, j)
             /\ l[j] = "install" =>
                  \/ AcceptedBefore(l, j) /\ Count(l, "createVenv") = 1
                  \/ /\ Count(l, "ask:create") = 0
                     /\ Count(l, "ask:replace") = 0
                     /\ Count(l, "createVenv") = 0
        /\ DeclineSpawnsNothing(t)

\* the install-only reconciliation ran the install, unprompted, and returned
\* true
InstallOnlyWitness ==
    /\ task[Open].pc = "ensured"
    /\ task[Open].venvOk
    /\ LogBody(Open) = <<"install", "installed">>

\* C27: whatever the outcome of the open sequence, extensionInitialized is
\* eventually resolved, and a command waiting on it eventually gets past the
\* wait.
InitializationCompletes ==
    /\ <>initialized
    /\ (task["cmdA"].pc = "awaitInit") ~> (task["cmdA"].pc = "gate")

\* a command waits while a sync subcommand of the open sequence has failed
WaitingOnFailedSyncWitness ==
    /\ task["cmdA"].pc = "awaitInit"
    /\ ~initialized
    /\ task[Open].pc = "subcmd"
    /\ task[Open].ex = "fail"
    /\ task[Open].k = 2

\* the report asks for a venv to be created or recreated, and the system
\* interpreter is absent, too old or lacks the venv module
NeedsVenvButNoSystemPython(c) ==
    /\ ~c.isVenvReady
    /\ ~c.hasVenvFolder \/ ~c.isVenvPythonNewEnough
    /\ ~c.hasSystemPython \/ ~c.isSystemPythonNewEnough
         \/ ~c.hasSystemPythonVenvModule

\* C31: when a venv must be created or recreated and the system interpreter
\* is absent, too old or lacks the venv module, ensureVenv shows the
\* remediation error and returns false at once: no create or tear-down
\* prompt, no deletion of the venv directory, no subprocess, no second try.
RemediationAborts ==
    /\ [](\A t \in Tasks :
            LET l == LogBody(t) IN
            Count(l, "error:remediation") > 0
            => /\ l = <<"error:remediation">>
               /\ task[t].pc = "ensured"
               /\ ~task[t].venvOk)
    /\ [][\A t \in Tasks :
            (/\ task[t].pc = "ensure"
             /\ task'[t] # task[t]
             /\ NeedsVenvButNoSystemPython(task[t].checks))
            => /\ task'[t].pc = "ensured"
               /\ ~task'[t].venvOk
               /\ LogBody(t)' = <<"error:remediation">>
               /\ venvExists' = venvExists
               /\ procs' = procs
               /\ spawned' = spawned]_vars
    /\ [][\A t \in Tasks :
            (/\ task[t].pc = "ensured"
             /\ task'[t] # task[t]
             /\ ~task[t].venvOk)
            => task'[t].pc = "done"]_vars

\* the venv is too old and the system interpreter cannot replace it: the
\* open sequence got the remediation error and the venv directory is still
\* there
RemediationWitness ==
    /\ task[Open].pc = "ensured"
    /\ ~task[Open].venvOk
    /\ LogBody(Open) = <<"error:remediation">>
    /\ venvExists

\* checkEnvironment is returning with didError set
PolicyQueryFailed(t) ==
    /\ task[t].pc = "checked"
    /\ task[t].didError
    /\ task'[t] # task[t]

\* C32 as stated: a failed execution-policy query aborts the enclosing
\* operation, in the open sequence and in an invoked command alike.
PolicyFailureAborts ==
    [][\A t \in Tasks : PolicyQueryFailed(t) => task'[t].pc = "done"]_vars

\* C32: a failed execution-policy query aborts an invoked command (no
\* reconciliation, no subcommand); the open sequence only warns and goes on
\* as it would have without the failure: to reconciliation when there is a
\* project file.
PolicyFailureAbortsCommands ==
    [][\A t \in Tasks :
         PolicyQueryFailed(t)
         => IF t \in Commands
            THEN /\ task'[t].pc = "done"
                 /\ procs' = procs
                 /\ spawned' = spawned
            ELSE IF ChecksConsistent(task[t].checks)
                    /\ task[t].checks.hasRobotPyProjectFile
                 THEN task'[t].pc = "ensure"
                 ELSE task'[t].pc = "done"]_vars

\* the open sequence is about to reconcile although the policy query failed
PolicyFailureWitness ==
    /\ task[Open].pc = "ensure"
    /\ task[Open].didError
    /\ ~task[Open].checks.winExecutionPolicyOk

\* this step is handleInput given the interrupt byte
CtrlCStep == lastEvent'.type = "ctrl-c"

\* C33: Ctrl-C (\x03) echoes "^C" and a newline, kills the process in the
\* slot if there is one, empties the slot and empties the line buffer: the
\* next Enter forwards only what was typed after it.
CtrlCInterrupts ==
    /\ [](lastEvent.type = "ctrl-c" =>
            /\ inputBuffer = <<>>
            /\ currentProcess = NoProc
            /\ lastEvent.pid \in DOMAIN procs => procs[lastEvent.pid].killed)
    /\ [][ /\ CtrlCStep =>
                /\ lastEvent'.echo = <<"^", "C", CR, LF>>
                /\ lastEvent'.pid = currentProcess
                /\ procs' = Killed(procs, currentProcess)
                /\ KilledNow \subseteq {currentProcess}
           /\ (EnterStep /\ currentProcess \in DOMAIN procs) =>
                procs'[currentProcess].stdin =
                    Append(procs[currentProcess].stdin, inputBuffer \o <<LF>>)
         ]_vars

\* Ctrl-C killed the running process and threw away unsubmitted text
CtrlCWitness ==
    /\ lastEvent.type = "ctrl-c"
    /\ lastEvent.pid \in DOMAIN procs
    /\ procs[lastEvent.pid].killed
    /\ lastEvent.dropped
    /\ inputBuffer = <<>>
    /\ currentProcess = NoProc

\* the chunks, concatenated
RECURSIVE Flatten(_)
Flatten(chunks) ==
    IF chunks = <<>> THEN <<>> ELSE Head(chunks) \o Flatten(Tail(chunks))

\* each chunk with its bare line feeds replaced, concatenated
RECURSIVE FlattenReplaced(_)
FlattenReplaced(chunks) ==
    IF chunks = <<>> THEN <<>>
    ELSE ReplaceBareLF(Head(chunks), "") \o FlattenReplaced(Tail(chunks))

\* C34: for a run that is not silent the invocation line and every chunk
\* reach the log and the terminal in arrival order, the terminal receiving
\* the output with every line feed not preceded by a carriage return replaced
\* by CR LF, also across chunk boundaries; a silent run writes to the log
\* only.
OutputEchoed ==
    \A p \in DOMAIN procs :
      LET pr == procs[p] IN
      /\ pr.channel = RunningLine(pr.kind) \o Flatten(pr.received)
      /\ pr.terminal =
           IF pr.silent THEN <<>>
           ELSE InvocationLine(pr.kind)
                  \o ReplaceBareLF(Flatten(pr.received), "\n")

\* the same with the replacement made in each chunk by itself
OutputEchoedPerChunk ==
    \A p \in DOMAIN procs :
      LET pr == procs[p] IN
      /\ pr.channel = RunningLine(pr.kind) \o Flatten(pr.received)
      /\ pr.terminal =
           IF pr.silent THEN <<>>
           ELSE InvocationLine(pr.kind) \o FlattenReplaced(pr.received)

\* a CR LF pair arrived split across two chunks of a run that is not silent
SplitPairWitness ==
    \E p \in DOMAIN procs :
      /\ ~procs[p].silent
      /\ procs[p].received = << <<"a", "\r">>, <<"\n", "b">> >>

\* this step is the 'close' or 'error' handler of process p
CompletionOf(p) ==
    /\ lastEvent'.type \in {"close", "error"}
    /\ lastEvent'.pid = p

\* C35: the completion (close or error) event of a process that a kill had
\* removed from the slot never empties a slot that by then holds another,
\* newer process.
CompletionClearsOwnSlotOnly ==
    [][\A p \in DOMAIN procs :
         (CompletionOf(p) /\ procs[p].killed /\ currentProcess \notin {p, NoProc})
         => currentProcess' = currentProcess]_vars

\* this step is the fs.rmSync of the venv directory by call chain t
RemovesVenv(t) == Count(task'[t].log, "rm:venv") > Count(task[t].log, "rm:venv")

\* C36: the venv directory is never deleted while a supervised process is
\* alive, however two dispatched sequences interleave.
NoDeletionWhileRunning ==
    [][\A t \in Tasks : RemovesVenv(t) => DOMAIN procs = {}]_vars

\* the same, counting only processes that nothing has killed
NoDeletionWhileUnkilledRunning ==
    [][\A t \in Tasks :
         RemovesVenv(t) => \A p \in DOMAIN procs : procs[p].killed]_vars

\* this step is findPythonCommand going past a candidate of call chain t that
\* was not run because the slot was occupied
SkipsCandidateUnrun(t) ==
    /\ task[t].pc \in VersionProbePcs
    /\ task[t].ex = "fail"
    /\ task[t].err = NopeErr
    /\ task'[t] # task[t]

\* C37: what the locator returns depends on its candidates only, not on the
\* slot: it never passes over a candidate, or returns null, because another
\* process was running.
LocatorIndependentOfSlot ==
    [][\A t \in Tasks : ~SkipsCandidateUnrun(t)]_vars

\* the weaker statement: null is not returned right after an unrun candidate
LocatorAbsentOnlyAfterRun ==
    [][\A t \in Tasks :
         SkipsCandidateUnrun(t) => task[t].i < NumCandidates(task[t].pc)]_vars

\* this step is the completion of a subcommand's process that had been killed
CancelledSubcommandCompletes(p) ==
    /\ CompletionOf(p)
    /\ procs[p].killed
    /\ procs[p].kind = "subcmd"

\* a call chain whose subcommand failed settles without running anything more
FailedSubcommandEndsSequence ==
    \A t \in Tasks :
      (task[t].pc = "subcmd" /\ task[t].ex = "fail" /\ task'[t] # task[t])
      => /\ task'[t].pc = "done"
         /\ procs' = procs
         /\ spawned' = spawned

\* C38: once a running subcommand has been cancelled (accepted cancel prompt,
\* Ctrl-C or closed terminal), its sequence starts no further subcommand and
\* no reconciliation step, whatever exit code or signal the killed process
\* closes with.
CancelEndsSequence ==
    [][ /\ \A p \in DOMAIN procs :
             CancelledSubcommandCompletes(p) => task'[procs[p].owner].ex = "fail"
        /\ FailedSubcommandEndsSequence ]_vars

\* the same for a killed process that closes with a signal or an exit code
\* other than 0
CancelEndsSequenceUnlessExitZero ==
    [][ /\ \A p \in DOMAIN procs :
             (CancelledSubcommandCompletes(p) /\ lastEvent'.code # 0)
             => task'[procs[p].owner].ex = "fail"
        /\ FailedSubcommandEndsSequence ]_vars

\* this step is ensureVenv of call chain t returning true
ReturnsTrue(t) ==
    /\ task[t].pc # "ensured"
    /\ task'[t].pc = "ensured"
    /\ task'[t].venvOk

\* what the reconciler that returned true had shown, asked and run: nothing,
\* or a run that ends with the install, a creation having succeeded before it
TrueLog(l) ==
    /\ \A j \in DOMAIN l :
         l[j] \notin {"no", "cancel:no", "error:remediation", "error:setup failed"}
    /\ \/ l = <<>>
       \/ /\ Len(l) >= 2
          /\ l[Len(l) - 1] = "install"
          /\ l[Len(l)] = "installed"
          /\ Count(l, "createVenv") > 0 => Before(l, "created", "install")

\* true is returned from the report's isVenvReady or from the install of this
\* call having succeeded
TrueOnlyFromReadyOrInstall ==
    \A t \in Tasks :
      ReturnsTrue(t) =>
        \/ task[t].pc = "ensure" /\ task[t].checks.isVenvReady
        \/ task[t].pc = "install" /\ task[t].ex = "ok"

\* a creation or an install that failed makes the reconciler return false
FailedRunReturnsFalse ==
    \A t \in Tasks :
      (task[t].pc \in ReconcilerRunPcs /\ task[t].ex = "fail" /\ task'[t] # task[t])
      => task'[t].pc = "ensured" /\ ~task'[t].venvOk

\* this step is the completion of a process the reconciler ran
ReconcilerRunCompletes(p) == CompletionOf(p) /\ procs[p].kind \in ReconcilerRunPcs

\* C39: the reconciler returns true only if the report had isVenvReady or
\* the install of this call closed with exit code 0, after a creation (if
\* any) that closed with 0; never after a failed, killed or declined step.
TrueOnlyAfterSuccess ==
    /\ [](\A t \in Tasks :
            (task[t].pc = "ensured" /\ task[t].venvOk) => TrueLog(LogBody(t)))
    /\ [][ /\ TrueOnlyFromReadyOrInstall
           /\ FailedRunReturnsFalse
           /\ \A p \in DOMAIN procs :
                (ReconcilerRunCompletes(p) /\ (lastEvent'.code # 0 \/ procs[p].killed))
                => task'[procs[p].owner].ex = "fail" ]_vars

\* the same, a killed process that closes with exit code 0 counting as a
\* success
TrueOnlyAfterExitZero ==
    /\ [](\A t \in Tasks :
            (task[t].pc = "ensured" /\ task[t].venvOk) => TrueLog(LogBody(t)))
    /\ [][ /\ TrueOnlyFromReadyOrInstall
           /\ FailedRunReturnsFalse
           /\ \A p \in DOMAIN procs :
                (ReconcilerRunCompletes(p) /\ lastEvent'.code # 0)
                => task'[procs[p].owner].ex = "fail" ]_vars

\* this step is handleInput discarding an activation command
ActivationStep ==
    /\ lastEvent'.type = "input"
    /\ MatchesActivate(Trim(lastEvent'.data))

\* C40: an input discarded by the activation filter also empties the line
\* buffer: what was typed before it and not yet submitted is not forwarded by
\* the next Enter, which forwards only what was typed after it.
ActivationResetsLine ==
    /\ []((lastEvent.type = "input" /\ MatchesActivate(Trim(lastEvent.data)))
            => inputBuffer = <<>>)
    /\ [][ /\ ActivationStep => inputBuffer' = <<>> /\ typed' = <<>>
           /\ (EnterStep /\ currentProcess \in DOMAIN procs) =>
                /\ procs'[currentProcess].stdin =
                     Append(procs[currentProcess].stdin, Edited(typed) \o <<LF>>)
                /\ \A c \in ActivationChunks : \A j \in DOMAIN typed : typed[j] # c
         ]_vars

\* an activation command arrived while a running process had unsubmitted
\* text in the line buffer
ActivationResetWitness ==
    /\ lastEvent.type = "input"
    /\ lastEvent.data \in ActivationChunks
    /\ lastEvent.dropped
    /\ lastEvent.pid \in DOMAIN procs
    /\ inputBuffer = <<>>

====
